--------------------------- MODULE Spec2Model ---------------------------
(***************************************************************************)
(* txt2bas / bas2txt: the codec between BASIC source text and the          *)
(* tokenized +3DOS program format.                                         *)
(*                                                                         *)
(* Characters and bytes are integers (ASCII codes, 0..255); a string, a    *)
(* std::vector<uint8_t> and a line of text are sequences of them.  The     *)
(* code's indices are 0-based: At(s, i) reads s[i].                        *)
(***************************************************************************)
EXTENDS Integers, Sequences, FiniteSets, TLC

----------------------------------------------------------------------------
(* <cctype> in the "C" locale, and the conversions to uint8_t.              *)

At(s, i) == s[i + 1]

\* static_cast<uint8_t>(x & 0xFF)
Byte(x) == x % 256

\* x >> 8 on a two's complement int
Shr8(x) == x \div 256

isdigit(c) == c \in 48..57

isalpha(c) == c \in 65..90 \/ c \in 97..122

isalnum(c) == isalpha(c) \/ isdigit(c)

toupper(c) == IF c \in 97..122 THEN c - 32 ELSE c

tolower(c) == IF c \in 65..90 THEN c + 32 ELSE c

\* the characters " \t\r\n" of the trim in ConvertFile
IsTrimSpace(c) == c \in {32, 9, 13, 10}

\* text.substr(from, count), clipped at the end of the text as substr does
Substr(s, from, count) ==
  SubSeq(s, from + 1, IF from + count > Len(s) THEN Len(s) ELSE from + count)

\* text.substr(from)
SubstrFrom(s, from) == SubSeq(s, from + 1, Len(s))

RECURSIVE Concat(_)
Concat(ss) == IF ss = <<>> THEN <<>> ELSE Head(ss) \o Concat(Tail(ss))

----------------------------------------------------------------------------
(* TokenMap: keyword spelling -> code, in the order of the source.          *)

TokenMap ==
  <<
    <<<<80, 69, 69, 75, 36>>, 135>>,                  \* Map["PEEK$"] = 0x87
    <<<<82, 69, 71>>, 136>>,                          \* Map["REG"] = 0x88
    <<<<68, 80, 79, 75, 69>>, 137>>,                  \* Map["DPOKE"] = 0x89
    <<<<68, 80, 69, 69, 75>>, 138>>,                  \* Map["DPEEK"] = 0x8A
    <<<<77, 79, 68>>, 139>>,                          \* Map["MOD"] = 0x8B
    <<<<60, 60>>, 140>>,                              \* Map["<<"] = 0x8C
    <<<<62, 62>>, 141>>,                              \* Map[">>"] = 0x8D
    <<<<85, 78, 84, 73, 76>>, 142>>,                  \* Map["UNTIL"] = 0x8E
    <<<<69, 82, 82, 79, 82>>, 143>>,                  \* Map["ERROR"] = 0x8F
    <<<<79, 78>>, 144>>,                              \* Map["ON"] = 0x90
    <<<<68, 69, 70, 80, 82, 79, 67>>, 145>>,          \* Map["DEFPROC"] = 0x91
    <<<<69, 78, 68, 80, 82, 79, 67>>, 146>>,          \* Map["ENDPROC"] = 0x92
    <<<<80, 82, 79, 67>>, 147>>,                      \* Map["PROC"] = 0x93
    <<<<76, 79, 67, 65, 76>>, 148>>,                  \* Map["LOCAL"] = 0x94
    <<<<68, 82, 73, 86, 69, 82>>, 149>>,              \* Map["DRIVER"] = 0x95
    <<<<87, 72, 73, 76, 69>>, 150>>,                  \* Map["WHILE"] = 0x96
    <<<<82, 69, 80, 69, 65, 84>>, 151>>,              \* Map["REPEAT"] = 0x97
    <<<<69, 76, 83, 69>>, 152>>,                      \* Map["ELSE"] = 0x98
    <<<<82, 69, 77, 79, 85, 78, 84>>, 153>>,          \* Map["REMOUNT"] = 0x99
    <<<<66, 65, 78, 75>>, 154>>,                      \* Map["BANK"] = 0x9A
    <<<<84, 73, 76, 69>>, 155>>,                      \* Map["TILE"] = 0x9B
    <<<<76, 65, 89, 69, 82>>, 156>>,                  \* Map["LAYER"] = 0x9C
    <<<<80, 65, 76, 69, 84, 84, 69>>, 157>>,          \* Map["PALETTE"] = 0x9D
    <<<<83, 80, 82, 73, 84, 69>>, 158>>,              \* Map["SPRITE"] = 0x9E
    <<<<80, 87, 68>>, 159>>,                          \* Map["PWD"] = 0x9F
    <<<<67, 68>>, 160>>,                              \* Map["CD"] = 0xA0
    <<<<77, 75, 68, 73, 82>>, 161>>,                  \* Map["MKDIR"] = 0xA1
    <<<<82, 77, 68, 73, 82>>, 162>>,                  \* Map["RMDIR"] = 0xA2
    <<<<83, 80, 69, 67, 84, 82, 85, 77>>, 163>>,      \* Map["SPECTRUM"] = 0xA3
    <<<<80, 76, 65, 89>>, 164>>,                      \* Map["PLAY"] = 0xA4
    <<<<82, 78, 68>>, 165>>,                          \* Map["RND"] = 0xA5
    <<<<73, 78, 75, 69, 89, 36>>, 166>>,              \* Map["INKEY$"] = 0xA6
    <<<<80, 73>>, 167>>,                              \* Map["PI"] = 0xA7
    <<<<70, 78>>, 168>>,                              \* Map["FN"] = 0xA8
    <<<<80, 79, 73, 78, 84>>, 169>>,                  \* Map["POINT"] = 0xA9
    <<<<83, 67, 82, 69, 69, 78, 36>>, 170>>,          \* Map["SCREEN$"] = 0xAA
    <<<<65, 84, 84, 82>>, 171>>,                      \* Map["ATTR"] = 0xAB
    <<<<65, 84>>, 172>>,                              \* Map["AT"] = 0xAC
    <<<<84, 65, 66>>, 173>>,                          \* Map["TAB"] = 0xAD
    <<<<86, 65, 76, 36>>, 174>>,                      \* Map["VAL$"] = 0xAE
    <<<<67, 79, 68, 69>>, 175>>,                      \* Map["CODE"] = 0xAF
    <<<<86, 65, 76>>, 176>>,                          \* Map["VAL"] = 0xB0
    <<<<76, 69, 78>>, 177>>,                          \* Map["LEN"] = 0xB1
    <<<<83, 73, 78>>, 178>>,                          \* Map["SIN"] = 0xB2
    <<<<67, 79, 83>>, 179>>,                          \* Map["COS"] = 0xB3
    <<<<84, 65, 78>>, 180>>,                          \* Map["TAN"] = 0xB4
    <<<<65, 83, 78>>, 181>>,                          \* Map["ASN"] = 0xB5
    <<<<65, 67, 83>>, 182>>,                          \* Map["ACS"] = 0xB6
    <<<<65, 84, 78>>, 183>>,                          \* Map["ATN"] = 0xB7
    <<<<76, 78>>, 184>>,                              \* Map["LN"] = 0xB8
    <<<<69, 88, 80>>, 185>>,                          \* Map["EXP"] = 0xB9
    <<<<73, 78, 84>>, 186>>,                          \* Map["INT"] = 0xBA
    <<<<83, 81, 82>>, 187>>,                          \* Map["SQR"] = 0xBB
    <<<<83, 71, 78>>, 188>>,                          \* Map["SGN"] = 0xBC
    <<<<65, 66, 83>>, 189>>,                          \* Map["ABS"] = 0xBD
    <<<<80, 69, 69, 75>>, 190>>,                      \* Map["PEEK"] = 0xBE
    <<<<73, 78>>, 191>>,                              \* Map["IN"] = 0xBF
    <<<<85, 83, 82>>, 192>>,                          \* Map["USR"] = 0xC0
    <<<<83, 84, 82, 36>>, 193>>,                      \* Map["STR$"] = 0xC1
    <<<<67, 72, 82, 36>>, 194>>,                      \* Map["CHR$"] = 0xC2
    <<<<78, 79, 84>>, 195>>,                          \* Map["NOT"] = 0xC3
    <<<<66, 73, 78>>, 196>>,                          \* Map["BIN"] = 0xC4
    <<<<79, 82>>, 197>>,                              \* Map["OR"] = 0xC5
    <<<<65, 78, 68>>, 198>>,                          \* Map["AND"] = 0xC6
    <<<<60, 61>>, 199>>,                              \* Map["<="] = 0xC7
    <<<<62, 61>>, 200>>,                              \* Map[">="] = 0xC8
    <<<<60, 62>>, 201>>,                              \* Map["<>"] = 0xC9
    <<<<76, 73, 78, 69>>, 202>>,                      \* Map["LINE"] = 0xCA
    <<<<84, 72, 69, 78>>, 203>>,                      \* Map["THEN"] = 0xCB
    <<<<84, 79>>, 204>>,                              \* Map["TO"] = 0xCC
    <<<<83, 84, 69, 80>>, 205>>,                      \* Map["STEP"] = 0xCD
    <<<<68, 69, 70, 32, 70, 78>>, 206>>,              \* Map["DEF FN"] = 0xCE
    <<<<67, 65, 84>>, 207>>,                          \* Map["CAT"] = 0xCF
    <<<<70, 79, 82, 77, 65, 84>>, 208>>,              \* Map["FORMAT"] = 0xD0
    <<<<77, 79, 86, 69>>, 209>>,                      \* Map["MOVE"] = 0xD1
    <<<<69, 82, 65, 83, 69>>, 210>>,                  \* Map["ERASE"] = 0xD2
    <<<<79, 80, 69, 78, 32, 35>>, 211>>,              \* Map["OPEN #"] = 0xD3
    <<<<67, 76, 79, 83, 69, 32, 35>>, 212>>,          \* Map["CLOSE #"] = 0xD4
    <<<<77, 69, 82, 71, 69>>, 213>>,                  \* Map["MERGE"] = 0xD5
    <<<<86, 69, 82, 73, 70, 89>>, 214>>,              \* Map["VERIFY"] = 0xD6
    <<<<66, 69, 69, 80>>, 215>>,                      \* Map["BEEP"] = 0xD7
    <<<<67, 73, 82, 67, 76, 69>>, 216>>,              \* Map["CIRCLE"] = 0xD8
    <<<<73, 78, 75>>, 217>>,                          \* Map["INK"] = 0xD9
    <<<<80, 65, 80, 69, 82>>, 218>>,                  \* Map["PAPER"] = 0xDA
    <<<<70, 76, 65, 83, 72>>, 219>>,                  \* Map["FLASH"] = 0xDB
    <<<<66, 82, 73, 71, 72, 84>>, 220>>,              \* Map["BRIGHT"] = 0xDC
    <<<<73, 78, 86, 69, 82, 83, 69>>, 221>>,          \* Map["INVERSE"] = 0xDD
    <<<<79, 86, 69, 82>>, 222>>,                      \* Map["OVER"] = 0xDE
    <<<<79, 85, 84>>, 223>>,                          \* Map["OUT"] = 0xDF
    <<<<76, 80, 82, 73, 78, 84>>, 224>>,              \* Map["LPRINT"] = 0xE0
    <<<<76, 76, 73, 83, 84>>, 225>>,                  \* Map["LLIST"] = 0xE1
    <<<<83, 84, 79, 80>>, 226>>,                      \* Map["STOP"] = 0xE2
    <<<<82, 69, 65, 68>>, 227>>,                      \* Map["READ"] = 0xE3
    <<<<68, 65, 84, 65>>, 228>>,                      \* Map["DATA"] = 0xE4
    <<<<82, 69, 83, 84, 79, 82, 69>>, 229>>,          \* Map["RESTORE"] = 0xE5
    <<<<78, 69, 87>>, 230>>,                          \* Map["NEW"] = 0xE6
    <<<<66, 79, 82, 68, 69, 82>>, 231>>,              \* Map["BORDER"] = 0xE7
    <<<<67, 79, 78, 84, 73, 78, 85, 69>>, 232>>,      \* Map["CONTINUE"] = 0xE8
    <<<<68, 73, 77>>, 233>>,                          \* Map["DIM"] = 0xE9
    <<<<82, 69, 77>>, 234>>,                          \* Map["REM"] = 0xEA
    <<<<70, 79, 82>>, 235>>,                          \* Map["FOR"] = 0xEB
    <<<<71, 79, 32, 84, 79>>, 236>>,                  \* Map["GO TO"] = 0xEC
    <<<<71, 79, 84, 79>>, 236>>,                      \* Map["GOTO"] = 0xEC
    <<<<71, 79, 32, 83, 85, 66>>, 237>>,              \* Map["GO SUB"] = 0xED
    <<<<71, 79, 83, 85, 66>>, 237>>,                  \* Map["GOSUB"] = 0xED
    <<<<73, 78, 80, 85, 84>>, 238>>,                  \* Map["INPUT"] = 0xEE
    <<<<76, 79, 65, 68>>, 239>>,                      \* Map["LOAD"] = 0xEF
    <<<<76, 73, 83, 84>>, 240>>,                      \* Map["LIST"] = 0xF0
    <<<<76, 69, 84>>, 241>>,                          \* Map["LET"] = 0xF1
    <<<<80, 65, 85, 83, 69>>, 242>>,                  \* Map["PAUSE"] = 0xF2
    <<<<78, 69, 88, 84>>, 243>>,                      \* Map["NEXT"] = 0xF3
    <<<<80, 79, 75, 69>>, 244>>,                      \* Map["POKE"] = 0xF4
    <<<<80, 82, 73, 78, 84>>, 245>>,                  \* Map["PRINT"] = 0xF5
    <<<<80, 76, 79, 84>>, 246>>,                      \* Map["PLOT"] = 0xF6
    <<<<82, 85, 78>>, 247>>,                          \* Map["RUN"] = 0xF7
    <<<<83, 65, 86, 69>>, 248>>,                      \* Map["SAVE"] = 0xF8
    <<<<82, 65, 78, 68, 79, 77, 73, 90, 69>>, 249>>,  \* Map["RANDOMIZE"] = 0xF9
    <<<<73, 70>>, 250>>,                              \* Map["IF"] = 0xFA
    <<<<67, 76, 83>>, 251>>,                          \* Map["CLS"] = 0xFB
    <<<<68, 82, 65, 87>>, 252>>,                      \* Map["DRAW"] = 0xFC
    <<<<67, 76, 69, 65, 82>>, 253>>,                  \* Map["CLEAR"] = 0xFD
    <<<<82, 69, 84, 85, 82, 78>>, 254>>,              \* Map["RETURN"] = 0xFE
    <<<<67, 79, 80, 89>>, 255>>                       \* Map["COPY"] = 0xFF
  >>

(* ReverseTokenMap: code -> canonical spelling.                             *)

ReverseTokenEntries ==
  <<
    <<135, <<80, 69, 69, 75, 36>>>>,                 \* Map[0x87] = "PEEK$"
    <<136, <<82, 69, 71>>>>,                         \* Map[0x88] = "REG"
    <<137, <<68, 80, 79, 75, 69>>>>,                 \* Map[0x89] = "DPOKE"
    <<138, <<68, 80, 69, 69, 75>>>>,                 \* Map[0x8A] = "DPEEK"
    <<139, <<77, 79, 68>>>>,                         \* Map[0x8B] = "MOD"
    <<140, <<60, 60>>>>,                             \* Map[0x8C] = "<<"
    <<141, <<62, 62>>>>,                             \* Map[0x8D] = ">>"
    <<142, <<85, 78, 84, 73, 76>>>>,                 \* Map[0x8E] = "UNTIL"
    <<143, <<69, 82, 82, 79, 82>>>>,                 \* Map[0x8F] = "ERROR"
    <<144, <<79, 78>>>>,                             \* Map[0x90] = "ON"
    <<145, <<68, 69, 70, 80, 82, 79, 67>>>>,         \* Map[0x91] = "DEFPROC"
    <<146, <<69, 78, 68, 80, 82, 79, 67>>>>,         \* Map[0x92] = "ENDPROC"
    <<147, <<80, 82, 79, 67>>>>,                     \* Map[0x93] = "PROC"
    <<148, <<76, 79, 67, 65, 76>>>>,                 \* Map[0x94] = "LOCAL"
    <<149, <<68, 82, 73, 86, 69, 82>>>>,             \* Map[0x95] = "DRIVER"
    <<150, <<87, 72, 73, 76, 69>>>>,                 \* Map[0x96] = "WHILE"
    <<151, <<82, 69, 80, 69, 65, 84>>>>,             \* Map[0x97] = "REPEAT"
    <<152, <<69, 76, 83, 69>>>>,                     \* Map[0x98] = "ELSE"
    <<153, <<82, 69, 77, 79, 85, 78, 84>>>>,         \* Map[0x99] = "REMOUNT"
    <<154, <<66, 65, 78, 75>>>>,                     \* Map[0x9A] = "BANK"
    <<155, <<84, 73, 76, 69>>>>,                     \* Map[0x9B] = "TILE"
    <<156, <<76, 65, 89, 69, 82>>>>,                 \* Map[0x9C] = "LAYER"
    <<157, <<80, 65, 76, 69, 84, 84, 69>>>>,         \* Map[0x9D] = "PALETTE"
    <<158, <<83, 80, 82, 73, 84, 69>>>>,             \* Map[0x9E] = "SPRITE"
    <<159, <<80, 87, 68>>>>,                         \* Map[0x9F] = "PWD"
    <<160, <<67, 68>>>>,                             \* Map[0xA0] = "CD"
    <<161, <<77, 75, 68, 73, 82>>>>,                 \* Map[0xA1] = "MKDIR"
    <<162, <<82, 77, 68, 73, 82>>>>,                 \* Map[0xA2] = "RMDIR"
    <<163, <<83, 80, 69, 67, 84, 82, 85, 77>>>>,     \* Map[0xA3] = "SPECTRUM"
    <<164, <<80, 76, 65, 89>>>>,                     \* Map[0xA4] = "PLAY"
    <<165, <<82, 78, 68>>>>,                         \* Map[0xA5] = "RND"
    <<166, <<73, 78, 75, 69, 89, 36>>>>,             \* Map[0xA6] = "INKEY$"
    <<167, <<80, 73>>>>,                             \* Map[0xA7] = "PI"
    <<168, <<70, 78>>>>,                             \* Map[0xA8] = "FN"
    <<169, <<80, 79, 73, 78, 84>>>>,                 \* Map[0xA9] = "POINT"
    <<170, <<83, 67, 82, 69, 69, 78, 36>>>>,         \* Map[0xAA] = "SCREEN$"
    <<171, <<65, 84, 84, 82>>>>,                     \* Map[0xAB] = "ATTR"
    <<172, <<65, 84>>>>,                             \* Map[0xAC] = "AT"
    <<173, <<84, 65, 66>>>>,                         \* Map[0xAD] = "TAB"
    <<174, <<86, 65, 76, 36>>>>,                     \* Map[0xAE] = "VAL$"
    <<175, <<67, 79, 68, 69>>>>,                     \* Map[0xAF] = "CODE"
    <<176, <<86, 65, 76>>>>,                         \* Map[0xB0] = "VAL"
    <<177, <<76, 69, 78>>>>,                         \* Map[0xB1] = "LEN"
    <<178, <<83, 73, 78>>>>,                         \* Map[0xB2] = "SIN"
    <<179, <<67, 79, 83>>>>,                         \* Map[0xB3] = "COS"
    <<180, <<84, 65, 78>>>>,                         \* Map[0xB4] = "TAN"
    <<181, <<65, 83, 78>>>>,                         \* Map[0xB5] = "ASN"
    <<182, <<65, 67, 83>>>>,                         \* Map[0xB6] = "ACS"
    <<183, <<65, 84, 78>>>>,                         \* Map[0xB7] = "ATN"
    <<184, <<76, 78>>>>,                             \* Map[0xB8] = "LN"
    <<185, <<69, 88, 80>>>>,                         \* Map[0xB9] = "EXP"
    <<186, <<73, 78, 84>>>>,                         \* Map[0xBA] = "INT"
    <<187, <<83, 81, 82>>>>,                         \* Map[0xBB] = "SQR"
    <<188, <<83, 71, 78>>>>,                         \* Map[0xBC] = "SGN"
    <<189, <<65, 66, 83>>>>,                         \* Map[0xBD] = "ABS"
    <<190, <<80, 69, 69, 75>>>>,                     \* Map[0xBE] = "PEEK"
    <<191, <<73, 78>>>>,                             \* Map[0xBF] = "IN"
    <<192, <<85, 83, 82>>>>,                         \* Map[0xC0] = "USR"
    <<193, <<83, 84, 82, 36>>>>,                     \* Map[0xC1] = "STR$"
    <<194, <<67, 72, 82, 36>>>>,                     \* Map[0xC2] = "CHR$"
    <<195, <<78, 79, 84>>>>,                         \* Map[0xC3] = "NOT"
    <<196, <<66, 73, 78>>>>,                         \* Map[0xC4] = "BIN"
    <<197, <<79, 82>>>>,                             \* Map[0xC5] = "OR"
    <<198, <<65, 78, 68>>>>,                         \* Map[0xC6] = "AND"
    <<199, <<60, 61>>>>,                             \* Map[0xC7] = "<="
    <<200, <<62, 61>>>>,                             \* Map[0xC8] = ">="
    <<201, <<60, 62>>>>,                             \* Map[0xC9] = "<>"
    <<202, <<76, 73, 78, 69>>>>,                     \* Map[0xCA] = "LINE"
    <<203, <<84, 72, 69, 78>>>>,                     \* Map[0xCB] = "THEN"
    <<204, <<84, 79>>>>,                             \* Map[0xCC] = "TO"
    <<205, <<83, 84, 69, 80>>>>,                     \* Map[0xCD] = "STEP"
    <<206, <<68, 69, 70, 32, 70, 78>>>>,             \* Map[0xCE] = "DEF FN"
    <<207, <<67, 65, 84>>>>,                         \* Map[0xCF] = "CAT"
    <<208, <<70, 79, 82, 77, 65, 84>>>>,             \* Map[0xD0] = "FORMAT"
    <<209, <<77, 79, 86, 69>>>>,                     \* Map[0xD1] = "MOVE"
    <<210, <<69, 82, 65, 83, 69>>>>,                 \* Map[0xD2] = "ERASE"
    <<211, <<79, 80, 69, 78, 32, 35>>>>,             \* Map[0xD3] = "OPEN #"
    <<212, <<67, 76, 79, 83, 69, 32, 35>>>>,         \* Map[0xD4] = "CLOSE #"
    <<213, <<77, 69, 82, 71, 69>>>>,                 \* Map[0xD5] = "MERGE"
    <<214, <<86, 69, 82, 73, 70, 89>>>>,             \* Map[0xD6] = "VERIFY"
    <<215, <<66, 69, 69, 80>>>>,                     \* Map[0xD7] = "BEEP"
    <<216, <<67, 73, 82, 67, 76, 69>>>>,             \* Map[0xD8] = "CIRCLE"
    <<217, <<73, 78, 75>>>>,                         \* Map[0xD9] = "INK"
    <<218, <<80, 65, 80, 69, 82>>>>,                 \* Map[0xDA] = "PAPER"
    <<219, <<70, 76, 65, 83, 72>>>>,                 \* Map[0xDB] = "FLASH"
    <<220, <<66, 82, 73, 71, 72, 84>>>>,             \* Map[0xDC] = "BRIGHT"
    <<221, <<73, 78, 86, 69, 82, 83, 69>>>>,         \* Map[0xDD] = "INVERSE"
    <<222, <<79, 86, 69, 82>>>>,                     \* Map[0xDE] = "OVER"
    <<223, <<79, 85, 84>>>>,                         \* Map[0xDF] = "OUT"
    <<224, <<76, 80, 82, 73, 78, 84>>>>,             \* Map[0xE0] = "LPRINT"
    <<225, <<76, 76, 73, 83, 84>>>>,                 \* Map[0xE1] = "LLIST"
    <<226, <<83, 84, 79, 80>>>>,                     \* Map[0xE2] = "STOP"
    <<227, <<82, 69, 65, 68>>>>,                     \* Map[0xE3] = "READ"
    <<228, <<68, 65, 84, 65>>>>,                     \* Map[0xE4] = "DATA"
    <<229, <<82, 69, 83, 84, 79, 82, 69>>>>,         \* Map[0xE5] = "RESTORE"
    <<230, <<78, 69, 87>>>>,                         \* Map[0xE6] = "NEW"
    <<231, <<66, 79, 82, 68, 69, 82>>>>,             \* Map[0xE7] = "BORDER"
    <<232, <<67, 79, 78, 84, 73, 78, 85, 69>>>>,     \* Map[0xE8] = "CONTINUE"
    <<233, <<68, 73, 77>>>>,                         \* Map[0xE9] = "DIM"
    <<234, <<82, 69, 77>>>>,                         \* Map[0xEA] = "REM"
    <<235, <<70, 79, 82>>>>,                         \* Map[0xEB] = "FOR"
    <<236, <<71, 79, 32, 84, 79>>>>,                 \* Map[0xEC] = "GO TO"
    <<237, <<71, 79, 32, 83, 85, 66>>>>,             \* Map[0xED] = "GO SUB"
    <<238, <<73, 78, 80, 85, 84>>>>,                 \* Map[0xEE] = "INPUT"
    <<239, <<76, 79, 65, 68>>>>,                     \* Map[0xEF] = "LOAD"
    <<240, <<76, 73, 83, 84>>>>,                     \* Map[0xF0] = "LIST"
    <<241, <<76, 69, 84>>>>,                         \* Map[0xF1] = "LET"
    <<242, <<80, 65, 85, 83, 69>>>>,                 \* Map[0xF2] = "PAUSE"
    <<243, <<78, 69, 88, 84>>>>,                     \* Map[0xF3] = "NEXT"
    <<244, <<80, 79, 75, 69>>>>,                     \* Map[0xF4] = "POKE"
    <<245, <<80, 82, 73, 78, 84>>>>,                 \* Map[0xF5] = "PRINT"
    <<246, <<80, 76, 79, 84>>>>,                     \* Map[0xF6] = "PLOT"
    <<247, <<82, 85, 78>>>>,                         \* Map[0xF7] = "RUN"
    <<248, <<83, 65, 86, 69>>>>,                     \* Map[0xF8] = "SAVE"
    <<249, <<82, 65, 78, 68, 79, 77, 73, 90, 69>>>>, \* Map[0xF9] = "RANDOMIZE"
    <<250, <<73, 70>>>>,                             \* Map[0xFA] = "IF"
    <<251, <<67, 76, 83>>>>,                         \* Map[0xFB] = "CLS"
    <<252, <<68, 82, 65, 87>>>>,                     \* Map[0xFC] = "DRAW"
    <<253, <<67, 76, 69, 65, 82>>>>,                 \* Map[0xFD] = "CLEAR"
    <<254, <<82, 69, 84, 85, 82, 78>>>>,             \* Map[0xFE] = "RETURN"
    <<255, <<67, 79, 80, 89>>>>                      \* Map[0xFF] = "COPY"
  >>

\* the code -> spelling table with the one-word aliases at 0xEC and 0xED
ReverseTokenMapOneWord ==
  [c \in {ReverseTokenEntries[n][1] : n \in DOMAIN ReverseTokenEntries} |->
     IF c = 236 THEN <<71, 79, 84, 79>>
     ELSE IF c = 237 THEN <<71, 79, 83, 85, 66>>
     ELSE (CHOOSE e \in {ReverseTokenEntries[n] : n \in DOMAIN ReverseTokenEntries} :
             e[1] = c)[2]]

ReverseTokenMap ==
  [c \in {ReverseTokenEntries[n][1] : n \in DOMAIN ReverseTokenEntries} |->
     (CHOOSE e \in {ReverseTokenEntries[n] : n \in DOMAIN ReverseTokenEntries} :
        e[1] = c)[2]]

\* _tokenMap.Map[k]
MapCode(k) ==
  (CHOOSE e \in {TokenMap[n] : n \in DOMAIN TokenMap} : e[1] = k)[2]

----------------------------------------------------------------------------
(* BasConverter::BasConverter: the keys sorted by length, longest first.    *)
(* Keys of equal length keep no particular order in the code (an unordered  *)
(* map, an unstable sort); no two keys of equal length match the same text. *)

Keys == [n \in DOMAIN TokenMap |-> TokenMap[n][1]]

KeyLen(k) == Len(k)

MaxKeyLen == CHOOSE m \in {Len(Keys[n]) : n \in DOMAIN Keys} :
               \A n \in DOMAIN Keys : Len(Keys[n]) <= m

KeysOfLen(m) == SelectSeq(Keys, LAMBDA k : Len(k) = m)

RECURSIVE LongestFirst(_)
LongestFirst(m) == IF m = 0 THEN <<>> ELSE KeysOfLen(m) \o LongestFirst(m - 1)

RECURSIVE ShortestFirst(_)
ShortestFirst(m) ==
  IF m > MaxKeyLen THEN <<>> ELSE KeysOfLen(m) \o ShortestFirst(m + 1)

\* the keys in the opposite order: shortest first
AscendingKeys == ShortestFirst(1)

SortedKeys == LongestFirst(MaxKeyLen)

----------------------------------------------------------------------------
(* SinclairNumber::Pack.  A double is modelled by its sign, the integer     *)
(* part of its magnitude and whether its fractional part is non-zero.       *)

Number(neg, ip, fnz) == [neg |-> neg, ip |-> ip, fnz |-> fnz]

PackZero == <<0, 0, 0, 0, 0>>

\* Pack with the two magnitude bytes in the other order
PackHighFirst(value) ==
  IF ~value.fnz /\ value.ip <= 65535
  THEN <<0, IF value.neg /\ value.ip > 0 THEN 255 ELSE 0,
         Byte(Shr8(value.ip)), Byte(value.ip), 0>>
  ELSE PackZero

\* Pack without the test on the range and the fractional part
PackUnchecked(value) ==
  <<0, IF value.neg /\ value.ip > 0 THEN 255 ELSE 0,
    Byte(value.ip), Byte(Shr8(value.ip)), 0>>

Pack(value) ==
  IF /\ ~value.fnz                               \* modf(number) == 0.0
     /\ value.ip <= 65535                        \* -65535 <= number <= 65535
  THEN LET val  == IF value.neg THEN 0 - value.ip ELSE value.ip
           sign == IF val < 0 THEN 255 ELSE 0
           mag  == IF val < 0 THEN 0 - val ELSE val
       IN  <<0, sign, Byte(mag), Byte(Shr8(mag)), 0>>
  ELSE PackZero

----------------------------------------------------------------------------
(* std::stod on a run of digits and dots: the longest prefix of the form    *)
(* digits [ '.' digits ].                                                   *)

RECURSIVE DigitRun(_, _)
DigitRun(s, i) ==
  IF i < Len(s) /\ isdigit(At(s, i)) THEN 1 + DigitRun(s, i + 1) ELSE 0

RECURSIVE DecValue(_)
DecValue(ds) ==
  IF ds = <<>> THEN 0
  ELSE 10 * DecValue(SubSeq(ds, 1, Len(ds) - 1)) + (ds[Len(ds)] - 48)

Stod(numStr) ==
  LET n  == DigitRun(numStr, 0)
      ip == DecValue(Substr(numStr, 0, n))
      m  == IF n < Len(numStr) /\ At(numStr, n) = 46
            THEN DigitRun(numStr, n + 1) ELSE 0
      fr == Substr(numStr, n + 1, m)
  IN  Number(FALSE, ip, \E p \in DOMAIN fr : fr[p] # 48)

----------------------------------------------------------------------------
(* BasConverter::ParseLine, one iteration of its scan loop at index i.      *)

\* text.find('"', from), Len(text) + 1 standing for npos
RECURSIVE FindQuote(_, _)
FindQuote(txt, from) ==
  IF from >= Len(txt) THEN Len(txt) + 1
  ELSE IF At(txt, from) = 34 THEN from
  ELSE FindQuote(txt, from + 1)

\* the while loop collecting numStr: the index after the run of digits and dots
RECURSIVE NumEnd(_, _)
NumEnd(txt, j) ==
  IF j < Len(txt) /\ (isdigit(At(txt, j)) \/ At(txt, j) = 46)
  THEN NumEnd(txt, j + 1) ELSE j

\* while (back >= 0 && text[back] == ' ') back--
RECURSIVE BackOverSpaces(_, _)
BackOverSpaces(txt, back) ==
  IF back >= 0 /\ At(txt, back) = 32 THEN BackOverSpaces(txt, back - 1)
  ELSE back

\* while (i < text.length() && text[i] == ' ') i++
RECURSIVE SkipSpaces(_, _)
SkipSpaces(txt, i) ==
  IF i < Len(txt) /\ At(txt, i) = 32 THEN SkipSpaces(txt, i + 1) ELSE i

CaseInsensitiveEquals(a, b) ==
  /\ Len(a) = Len(b)
  /\ \A p \in DOMAIN a : toupper(a[p]) = toupper(b[p])

\* CaseInsensitiveEquals(text.substr(i, k.length()), k), for a key that fits
EqualsAt(txt, i, k) ==
  \A p \in DOMAIN k : toupper(At(txt, i + p - 1)) = toupper(k[p])

\* the tests of the keyword loop without the word boundary
KeyMatchesAnywhere(txt, i, k) ==
  /\ i + Len(k) <= Len(txt)
  /\ EqualsAt(txt, i, k)

\* the three tests a key passes in the keyword loop before it is taken
\* the boundary test applied after the match only to keys that end with a
\* letter or a digit
KeyMatchesWordEnd(txt, i, k) ==
  /\ i + Len(k) <= Len(txt)
  /\ EqualsAt(txt, i, k)
  /\ LET isAlpha == isalpha(k[1])
         prevOk  == (i = 0) \/ ~isalpha(At(txt, i - 1))
         nextOk  == \/ i + Len(k) >= Len(txt)
                    \/ ~isalnum(At(txt, i + Len(k)))
                    \/ ~isalnum(k[Len(k)])
     IN  ~(isAlpha /\ (~prevOk \/ ~nextOk))

KeyMatches(txt, i, k) ==
  /\ i + Len(k) <= Len(txt)
  /\ EqualsAt(txt, i, k)
  /\ LET isAlpha == isalpha(k[1])
         prevOk  == (i = 0) \/ ~isalpha(At(txt, i - 1))
         nextOk  == (i + Len(k) >= Len(txt)) \/ ~isalnum(At(txt, i + Len(k)))
     IN  ~(isAlpha /\ (~prevOk \/ ~nextOk))

\* for (k : _sortedKeys): the index of the first key taken, 0 when none is
FirstKey(keys, txt, i) ==
  LET taken == {n \in DOMAIN keys : KeyMatches(txt, i, keys[n])}
  IN  IF taken = {} THEN 0
      ELSE CHOOSE n \in taken : \A m \in taken : n <= m

IsNumberStart(txt, i) ==
  \/ isdigit(At(txt, i))
  \/ /\ At(txt, i) = 46
     /\ i + 1 < Len(txt)
     /\ isdigit(At(txt, i + 1))

\* the ';' comment rule (the encoder sources that have it)
IsComment(txt, i) ==
  /\ At(txt, i) = 59
  /\ LET back == BackOverSpaces(txt, i - 1)
     IN  back < 0 \/ At(txt, back) = 58

Step(kind, out, next, key) ==
  [kind |-> kind, out |-> out, next |-> next, key |-> key]

\* the string case that copies the opening quote only
StringStepQuoteOnly(txt, i) == Step("string", <<34>>, i + 1, <<>>)

StringStep(txt, i) ==
  LET end == FindQuote(txt, i + 1)
  IN  IF end > Len(txt)
      THEN Step("string", SubstrFrom(txt, i), Len(txt), <<>>)
      ELSE Step("string", Substr(txt, i, end - i + 1), end + 1, <<>>)

\* the number case that takes a '-' before the literal as its sign
NumberStepSigned(txt, i) ==
  LET j      == NumEnd(txt, i)
      numStr == Substr(txt, i, j - i)
      minus  == i > 0 /\ At(txt, i - 1) = 45
  IN  Step("number",
           numStr \o <<14>> \o Pack([Stod(numStr) EXCEPT !.neg = minus]),
           j, <<>>)

NumberStep(txt, i) ==
  LET j      == NumEnd(txt, i)
      numStr == Substr(txt, i, j - i)
  IN  Step("number", numStr \o <<14>> \o Pack(Stod(numStr)), j, <<>>)

CommentStep(txt, i) == Step("comment", SubstrFrom(txt, i), Len(txt), <<>>)

\* the token case without the REM branch: REM handled like any other token
KeywordStepNoRem(txt, i, k) ==
  Step("keyword", <<MapCode(k)>>, SkipSpaces(txt, i + Len(k)), k)

KeywordStep(txt, i, k) ==
  LET token == MapCode(k)
      after == i + Len(k)
  IN  IF token = 234
      THEN Step("keyword", <<token>> \o SubstrFrom(txt, after), Len(txt), k)
      ELSE Step("keyword", <<token>>, SkipSpaces(txt, after), k)

LiteralStep(txt, i) == Step("literal", <<Byte(At(txt, i))>>, i + 1, <<>>)

\* the branch the iteration at i takes
StepKind(txt, i, sm) ==
  IF At(txt, i) = 34 THEN "string"
  ELSE IF IsNumberStart(txt, i) THEN "number"
  ELSE IF sm /\ IsComment(txt, i) THEN "comment"
  ELSE IF FirstKey(SortedKeys, txt, i) # 0 THEN "keyword"
  ELSE "literal"

ScanStep(txt, i, sm) ==
  IF At(txt, i) = 34 THEN StringStep(txt, i)
  ELSE IF IsNumberStart(txt, i) THEN NumberStep(txt, i)
  ELSE IF sm /\ IsComment(txt, i) THEN CommentStep(txt, i)
  ELSE LET n == FirstKey(SortedKeys, txt, i)
       IN  IF n # 0 THEN KeywordStep(txt, i, SortedKeys[n])
           ELSE LiteralStep(txt, i)

\* the whole scan loop: lineData before the terminator
RECURSIVE ScanFrom(_, _, _)
ScanFrom(txt, i, sm) ==
  IF i >= Len(txt) THEN <<>>
  ELSE LET s == ScanStep(txt, i, sm)
       IN  s.out \o ScanFrom(txt, s.next, sm)

\* the record with a length field that leaves the terminator out
FinalLineShortLength(num, payload) ==
  <<Byte(Shr8(num)), Byte(num), Byte(Len(payload) - 1),
    Byte(Shr8(Len(payload) - 1))>> \o payload

\* [High Line #][Low Line #][Len Low][Len High][Data...]
FinalLine(num, payload) ==
  <<Byte(Shr8(num)), Byte(num), Byte(Len(payload)),
    Byte(Shr8(Len(payload)))>> \o payload

ParseLine(num, txt, sm) ==
  FinalLine(num, ScanFrom(txt, 0, sm) \o <<13>>)

----------------------------------------------------------------------------
(* BasConverter::ConvertFile, the handling of one line read by getline.     *)

RECURSIVE DropLeading(_)
DropLeading(line) ==
  IF line # <<>> /\ IsTrimSpace(Head(line)) THEN DropLeading(Tail(line))
  ELSE line

RECURSIVE DropTrailing(_)
DropTrailing(line) ==
  IF line # <<>> /\ IsTrimSpace(line[Len(line)])
  THEN DropTrailing(SubSeq(line, 1, Len(line) - 1))
  ELSE line

\* line.erase(0, find_first_not_of(...)); line.erase(find_last_not_of(...) + 1)
Trim(line) == DropTrailing(DropLeading(line))

\* "#autostart"
AutostartWord == <<35, 97, 117, 116, 111, 115, 116, 97, 114, 116>>

\* lowerLine.find("#autostart") == 0
IsAutostart(line) ==
  /\ Len(line) >= Len(AutostartWord)
  /\ \A p \in DOMAIN AutostartWord : tolower(line[p]) = AutostartWord[p]

\* the index after the run of characters of the set cs, from i
RECURSIVE RunEnd(_, _, _)
RunEnd(s, i, cs) ==
  IF i < Len(s) /\ At(s, i) \in cs THEN RunEnd(s, i + 1, cs) ELSE i

Digits == 48..57

\* std::isspace, and \s of std::regex
Spaces == {32, 9, 10, 11, 12, 13}

NonSpaces == (0..255) \ Spaces

\* what . of std::regex matches: any character but a line terminator
NonTerminators == (0..255) \ {10, 13}

\* the largest int
IntMax == 2147483647

\* iss >> dummy; iss >> val: [ok, val], ok when an int was extracted
ExtractOperand(line) ==
  LET afterWord == RunEnd(line, RunEnd(line, 0, Spaces), NonSpaces)
      start     == RunEnd(line, afterWord, Spaces)
      signed    == start < Len(line) /\ At(line, start) \in {43, 45}
      first     == IF signed THEN start + 1 ELSE start
      last      == RunEnd(line, first, Digits)
      mag       == DecValue(Substr(line, first, last - first))
      neg       == signed /\ At(line, start) = 45
  IN  IF last = first \/ mag - (IF neg THEN 1 ELSE 0) > IntMax
      THEN [ok |-> FALSE, val |-> 0]
      ELSE [ok |-> TRUE, val |-> IF neg THEN 0 - mag ELSE mag]

\* a digit string without its leading zeros
RECURSIVE DropZeros(_)
DropZeros(ds) ==
  IF Len(ds) > 1 /\ Head(ds) = 48 THEN DropZeros(Tail(ds)) ELSE ds

\* std::stoi on a run of digits: std::out_of_range above INT_MAX
Stoi(ds) ==
  LET sig  == DropZeros(ds)
      high == DecValue(SubSeq(sig, 1, 9))
      over == \/ Len(sig) > 10
              \/ Len(sig) = 10 /\ high > IntMax \div 10
              \/ Len(sig) = 10 /\ high = IntMax \div 10
                                /\ sig[10] - 48 > IntMax % 10
  IN  IF over THEN [ok |-> FALSE, val |-> 0]
      ELSE [ok |-> TRUE, val |-> DecValue(sig)]

\* the match without the whitespace required after the digits
LineRegexNoSpace(line) ==
  LET digitsEnd == RunEnd(line, 0, Digits)
      spaceEnd  == RunEnd(line, digitsEnd, Spaces)
      restEnd   == RunEnd(line, spaceEnd, NonTerminators)
  IN  IF digitsEnd > 0
      THEN [matched |-> TRUE,
            inRange |-> Stoi(Substr(line, 0, digitsEnd)).ok,
            num  |-> Stoi(Substr(line, 0, digitsEnd)).val,
            rest |-> Substr(line, spaceEnd, restEnd - spaceEnd)]
      ELSE [matched |-> FALSE, inRange |-> TRUE, num |-> 0, rest |-> line]

\* std::regex_search(line, match, R"(^(\d+)\s+(.*))") on a trimmed line
LineRegex(line) ==
  LET digitsEnd == RunEnd(line, 0, Digits)
      spaceEnd  == RunEnd(line, digitsEnd, Spaces)
      restEnd   == RunEnd(line, spaceEnd, NonTerminators)
  IN  IF digitsEnd > 0 /\ spaceEnd > digitsEnd
      THEN [matched |-> TRUE,
            inRange |-> Stoi(Substr(line, 0, digitsEnd)).ok,
            num  |-> Stoi(Substr(line, 0, digitsEnd)).val,
            rest |-> Substr(line, spaceEnd, restEnd - spaceEnd)]
      ELSE [matched |-> FALSE, inRange |-> TRUE, num |-> 0, rest |-> line]

\* the loop body that encodes a # line other than #autostart as code
ProcessLineHashEncoded(raw, autoStart, lineNo, sm) ==
  LET line == Trim(raw)
  IN  IF line = <<>>
      THEN [kind |-> "blank", auto |-> autoStart, cur |-> lineNo,
            bytes |-> <<>>]
      ELSE IF line[1] = 35 /\ IsAutostart(line)
      THEN LET op == ExtractOperand(line)
           IN  [kind |-> "hash",
                auto |-> IF op.ok THEN op.val ELSE autoStart,
                cur |-> lineNo, bytes |-> <<>>]
      ELSE LET m == LineRegex(line)
           IN  IF m.matched /\ ~m.inRange
               THEN [kind |-> "throw", auto |-> autoStart, cur |-> lineNo,
                     bytes |-> <<>>]
               ELSE IF m.matched
               THEN [kind |-> "numbered", auto |-> autoStart, cur |-> m.num + 10,
                     bytes |-> ParseLine(m.num, m.rest, sm)]
               ELSE [kind |-> "unnumbered", auto |-> autoStart,
                     cur |-> lineNo + 10,
                     bytes |-> ParseLine(lineNo, line, sm)]

\* One iteration of the while (getline) loop: the new AutoStartLine, the new
\* currentLineNum and the bytes appended to output.
\* kind "throw": std::stoi threw, ConvertFile is left by the exception.
ProcessLine(raw, autoStart, lineNo, sm) ==
  LET line == Trim(raw)
  IN  IF line = <<>>
      THEN [kind |-> "blank", auto |-> autoStart, cur |-> lineNo,
            bytes |-> <<>>]
      ELSE IF line[1] = 35
      THEN LET op == ExtractOperand(line)
           IN  [kind |-> "hash",
                auto |-> IF IsAutostart(line) /\ op.ok THEN op.val ELSE autoStart,
                cur |-> lineNo, bytes |-> <<>>]
      ELSE LET m == LineRegex(line)
           IN  IF m.matched /\ ~m.inRange
               THEN [kind |-> "throw", auto |-> autoStart, cur |-> lineNo,
                     bytes |-> <<>>]
               ELSE IF m.matched
               THEN [kind |-> "numbered", auto |-> autoStart, cur |-> m.num + 10,
                     bytes |-> ParseLine(m.num, m.rest, sm)]
               ELSE [kind |-> "unnumbered", auto |-> autoStart,
                     cur |-> lineNo + 10,
                     bytes |-> ParseLine(lineNo, line, sm)]

----------------------------------------------------------------------------
(* Plus3Dos::CreateHeader, statement by statement.                          *)

Put(h, i, b) == [h EXCEPT ![i + 1] = b]

\* "PLUS3DOS"
Signature == <<80, 76, 85, 83, 51, 68, 79, 83>>

\* "ZXPLUS3"
LegacySignature == <<90, 88, 80, 76, 85, 83, 51>>

\* std::vector<uint8_t> header(128, 0)
EmptyHeader == [p \in 1..128 |-> 0]

\* sum += header[i] for the indices lo..hi (halved to keep the evaluation shallow)
RECURSIVE SumBytes(_, _, _)
SumBytes(h, lo, hi) ==
  IF lo > hi THEN 0
  ELSE IF lo = hi THEN At(h, lo)
  ELSE LET mid == (lo + hi) \div 2
       IN  SumBytes(h, lo, mid) + SumBytes(h, mid + 1, hi)

\* Auto-start line logic: header[18], header[19], in the wrong byte order
AutoStartFieldSwapped(autoStart) ==
  IF autoStart >= 0 /\ autoStart < 32768
  THEN <<Byte(Shr8(autoStart)), Byte(autoStart)>>
  ELSE <<Byte(Shr8(32768)), Byte(32768)>>

\* Auto-start line logic without the range test
AutoStartFieldWrapped(autoStart) == <<Byte(autoStart), Byte(Shr8(autoStart))>>

\* Auto-start line logic: the values of header[18] and header[19]
AutoStartField(autoStart) ==
  IF autoStart >= 0 /\ autoStart < 32768
  THEN <<Byte(autoStart), Byte(Shr8(autoStart))>>
  ELSE <<Byte(32768), Byte(Shr8(32768))>>

\* the number of writes CreateHeader makes, in the order of the code
HeaderWrites == 9

\* the writes of CreateHeader with the checksum taken before header[20..21]
HeaderWriteEarlySum(h, step, basicLength, autoStart) ==
  LET totalFileSize == basicLength + 128
  IN  CASE step = 1 -> [p \in 1..128 |-> IF p <= 8 THEN Signature[p] ELSE h[p]]
        [] step = 2 -> Put(h, 8, 26)
        [] step = 3 -> Put(Put(h, 9, 1), 10, 0)
        [] step = 4 -> Put(Put(Put(Put(h, 11, Byte(totalFileSize)),
                                   12, Byte(Shr8(totalFileSize))),
                               13, Byte(totalFileSize \div 65536)),
                           14, Byte(totalFileSize \div 16777216))
        [] step = 5 -> Put(h, 15, 0)
        [] step = 6 -> Put(Put(h, 16, Byte(basicLength)), 17, Byte(Shr8(basicLength)))
        [] step = 7 -> LET field == AutoStartField(autoStart)
                       IN  Put(Put(h, 18, field[1]), 19, field[2])
        [] step = 8 -> Put(h, 127, SumBytes(h, 0, 126) % 256)
        [] step = 9 -> Put(Put(h, 20, Byte(basicLength)), 21, Byte(Shr8(basicLength)))

\* the total size without the 128 bytes of the header
DataSizeOnly(basicLength) == basicLength

\* int totalFileSize = basicLength + 128
TotalFileSize(basicLength) == basicLength + 128

HeaderWrite(h, step, basicLength, autoStart) ==
  LET totalFileSize == TotalFileSize(basicLength)
  IN  CASE step = 1 -> [p \in 1..128 |-> IF p <= 8 THEN Signature[p] ELSE h[p]]
        [] step = 2 -> Put(h, 8, 26)
        [] step = 3 -> Put(Put(h, 9, 1), 10, 0)
        [] step = 4 -> Put(Put(Put(Put(h, 11, Byte(totalFileSize)),
                                   12, Byte(Shr8(totalFileSize))),
                               13, Byte(totalFileSize \div 65536)),
                           14, Byte(totalFileSize \div 16777216))
        [] step = 5 -> Put(h, 15, 0)
        [] step = 6 -> Put(Put(h, 16, Byte(basicLength)), 17, Byte(Shr8(basicLength)))
        [] step = 7 -> LET field == AutoStartField(autoStart)
                       IN  Put(Put(h, 18, field[1]), 19, field[2])
        [] step = 8 -> Put(Put(h, 20, Byte(basicLength)), 21, Byte(Shr8(basicLength)))
        [] step = 9 -> Put(h, 127, SumBytes(h, 0, 126) % 256)

RECURSIVE HeaderAfter(_, _, _)
HeaderAfter(n, basicLength, autoStart) ==
  IF n = 0 THEN EmptyHeader
  ELSE HeaderWrite(HeaderAfter(n - 1, basicLength, autoStart), n,
                   basicLength, autoStart)

CreateHeader(basicLength, autoStart) ==
  HeaderAfter(HeaderWrites, basicLength, autoStart)

----------------------------------------------------------------------------
(* BasParser::DecodeLineData, one iteration of its loop at index i.         *)

IsToken(b) == b \in DOMAIN ReverseTokenMap

\* the spacing test without the test on what the next byte is
SpaceBeforeAnyByte(buf, i, end) == i + 1 < end

\* SMART SPACING LOGIC
SpaceAfterToken(buf, i, end) ==
  /\ i + 1 < end
  /\ LET next == At(buf, i + 1)
     IN  /\ next < 128
         /\ next # 14
         /\ (isalnum(next) \/ next = 34 \/ next = 46)

DStep(kind, out, next) == [kind |-> kind, out |-> out, next |-> next]

\* the marker case that leaves the index where it is
MarkerStepStuck(i) == DStep("marker", <<>>, i)

\* the marker case with one byte too few skipped
MarkerStepShort(i) == DStep("marker", <<>>, i + 5)

\* Case 1: Hidden Number Marker (0x0E): i += 5; continue (and the loop's i++)
MarkerStep(i) == DStep("marker", <<>>, i + 6)

\* the iteration that copies 0x7F as it copies the printable characters
DecodeStepRawDel(buf, i, end) ==
  LET b == At(buf, i)
  IN  IF b = 14 THEN MarkerStep(i)
      ELSE IF IsToken(b)
      THEN DStep("token",
                 ReverseTokenMap[b] \o
                   (IF SpaceAfterToken(buf, i, end) THEN <<32>> ELSE <<>>),
                 i + 1)
      ELSE IF b >= 32 /\ b <= 127 THEN DStep("char", <<b>>, i + 1)
      ELSE DStep("char", <<>>, i + 1)

DecodeStep(buf, i, end) ==
  LET b == At(buf, i)
  IN  IF b = 14 THEN MarkerStep(i)
      ELSE IF IsToken(b)
      THEN DStep("token",
                 ReverseTokenMap[b] \o
                   (IF SpaceAfterToken(buf, i, end) THEN <<32>> ELSE <<>>),
                 i + 1)
      ELSE IF b >= 32 /\ b <= 126 THEN DStep("char", <<b>>, i + 1)
      ELSE IF b = 127 THEN DStep("char", <<194, 169>>, i + 1)
      ELSE DStep("char", <<>>, i + 1)

RECURSIVE DecodeFrom(_, _, _)
DecodeFrom(buf, i, end) ==
  IF i >= end THEN <<>>
  ELSE LET s == DecodeStep(buf, i, end)
       IN  s.out \o DecodeFrom(buf, s.next, end)

DecodeLineData(buf, start, length) == DecodeFrom(buf, start, start + length)

\* sb << lineNum: the decimal digits of a non-negative int
RECURSIVE IntToStr(_)
IntToStr(n) ==
  IF n < 10 THEN <<48 + n>> ELSE IntToStr(n \div 10) \o <<48 + (n % 10)>>

\* the signature test without the legacy prefix
HasHeaderNoLegacy(buf) ==
  /\ Len(buf) >= 128
  /\ SubSeq(buf, 1, 8) = Signature

\* signature == "PLUS3DOS" || signature.substr(0, 7) == "ZXPLUS3"
HasHeader(buf) ==
  /\ Len(buf) >= 128
  /\ \/ SubSeq(buf, 1, 8) = Signature
     \/ SubSeq(buf, 1, 7) = LegacySignature

\* the record header with the line number read low byte first
RecordHeaderLowFirst(buf, off) ==
  [num |-> At(buf, off) + At(buf, off + 1) * 256,
   len |-> At(buf, off + 2) + At(buf, off + 3) * 256]

\* (buf[off] << 8) | buf[off + 1] ... the record header read at off
RecordHeader(buf, off) ==
  [num |-> At(buf, off) * 256 + At(buf, off + 1),
   len |-> At(buf, off + 2) + At(buf, off + 3) * 256]

\* the break test that lets one more missing byte through
RecordCutLate(buf, start, len) == start + len - 2 > Len(buf)

\* if (offset + lineLen - 1 > data.size()) break, offset past the record header
RecordCut(buf, start, len) == start + len - 1 > Len(buf)

\* sb << lineNum << " " << lineContent
TextLine(num, content) == IntToStr(num) \o <<32>> \o content

\* the while loop of Parse from off: the lines it appends
RECURSIVE ParseFrom(_, _)
ParseFrom(buf, off) ==
  IF off >= Len(buf) \/ off + 4 > Len(buf) THEN <<>>
  ELSE LET rh    == RecordHeader(buf, off)
           start == off + 4
       IN  IF RecordCut(buf, start, rh.len) THEN <<>>
           ELSE <<TextLine(rh.num, DecodeLineData(buf, start, rh.len - 1))>>
                  \o ParseFrom(buf, start + rh.len)

\* "#autostart "
AutostartPrefix == <<35, 97, 117, 116, 111, 115, 116, 97, 114, 116, 32>>

\* int autoStart = data[18] | (data[19] << 8)
\* the autostart field read high byte first
HeaderAutoStartHighFirst(buf) == At(buf, 18) * 256 + At(buf, 19)

\* int autoStart = data[18] | (data[19] << 8)
HeaderAutoStart(buf) == At(buf, 18) + At(buf, 19) * 256

\* the header part of Parse: the line it may append and where the records start
ParseHeaderPart(buf) ==
  IF HasHeader(buf)
  THEN [lines |-> IF HeaderAutoStart(buf) # 32768
                  THEN <<AutostartPrefix \o IntToStr(HeaderAutoStart(buf))>>
                  ELSE <<>>,
        off |-> 128]
  ELSE [lines |-> <<>>, off |-> 0]

\* the indices of buf the header part of Parse reads: the signature when
\* data.size() >= 128, data[18] and data[19] when the signature matches
HeaderReads(buf) ==
  IF Len(buf) >= 128
  THEN (0..7) \cup (IF HasHeader(buf) THEN {18, 19} ELSE {})
  ELSE {}

\* the indices the record header at off is read from
RecordReads(off) == off..(off + 3)

\* the indices one iteration of the loop of DecodeLineData reads: data[i],
\* and data[i + 1] for a token when i + 1 < end
StepReads(buf, i, end) ==
  {i} \cup (IF At(buf, i) # 14 /\ IsToken(At(buf, i)) /\ i + 1 < end
            THEN {i + 1} ELSE {})

\* BasParser::Parse: the lines of the text returned
Parse(buf) ==
  LET hp == ParseHeaderPart(buf)
  IN  hp.lines \o ParseFrom(buf, hp.off)

----------------------------------------------------------------------------
(* State.                                                                   *)

VARIABLES
  \* which txt2bas source is built: TRUE for the one with the ';' comment rule
  semi,
  \* BasConverter and one call of ConvertFile, then main
  \* (src: the lines read so far; fileOut: the file written for this conversion)
  AutoStartLine, currentLineNum, output, src, conversions, fileOut, epc,
  \* one call of ParseLine
  text, scanPos, lineData, finalLine, last, lpc,
  \* the text bas2txt gives for finalLine, and its encoding by txt2bas
  decoded, reencoded,
  \* one call of SinclairNumber::Pack
  number, packed,
  \* one call of Plus3Dos::CreateHeader
  basicLength, autoStartLine, header, written,
  \* one call of BasParser::Parse
  data, offset, sb, lineNum, lineLen, decPos, decEnd, lineContent, dlast, dpc

encVars == <<AutoStartLine, currentLineNum, output, src, conversions, fileOut, epc>>

lineVars == <<text, scanPos, lineData, finalLine, last, lpc, decoded, reencoded,
              number, packed>>

hdrVars == <<basicLength, autoStartLine, header, written>>

decVars == <<data, offset, sb, lineNum, lineLen, decPos, decEnd, lineContent,
             dlast, dpc>>

vars == <<semi, encVars, lineVars, hdrVars, decVars>>

\* int AutoStartLine = 32768
NoAutoStart == 32768

\* int currentLineNum = 10
FirstLineNum == 10

NoStep == [kind |-> "none", out |-> <<>>, next |-> 0, key |-> <<>>, at |-> 0]

NoDStep == [kind |-> "none", out |-> <<>>, next |-> 0, at |-> 0]

EncIdle ==
  /\ AutoStartLine = NoAutoStart
  /\ currentLineNum = FirstLineNum
  /\ output = <<>>
  /\ src = <<>>
  /\ conversions = 0
  /\ fileOut = <<>>
  /\ epc = "idle"

LineIdle ==
  /\ text = <<>>
  /\ scanPos = 0
  /\ lineData = <<>>
  /\ finalLine = <<>>
  /\ last = NoStep
  /\ lpc = "idle"
  /\ decoded = <<>>
  /\ reencoded = <<>>
  /\ number = Number(FALSE, 0, FALSE)
  /\ packed = <<>>

HdrIdle ==
  /\ basicLength = 0
  /\ autoStartLine = 0
  /\ header = <<>>
  /\ written = 0

DecIdle ==
  /\ data = <<>>
  /\ offset = 0
  /\ sb = <<>>
  /\ lineNum = 0
  /\ lineLen = 0
  /\ decPos = 0
  /\ decEnd = 0
  /\ lineContent = <<>>
  /\ dlast = NoDStep
  /\ dpc = "idle"

----------------------------------------------------------------------------
(* txt2bas: main constructs a BasConverter, calls ConvertFile and writes    *)
(* CreateHeader(data.size(), AutoStartLine) followed by the data.  A        *)
(* BasConverter is an object: ConvertFile may be called on it again.        *)

\* lines a source file is made of
SourceLines ==
  {
    <<>>,                                    \* ||
    <<32, 32, 9>>,                           \* |  \x09|
    <<35, 32, 110, 111, 116, 101>>,          \* |# note|
    <<35, 97, 117, 116, 111, 115, 116, 97, 114, 116, 32, 50, 48>>, \* |#autostart 20|
    <<35, 65, 117, 116, 111, 83, 116, 97, 114, 116, 32, 51, 48, 32>>, \* |#AutoStart 30 |
    <<35, 97, 117, 116, 111, 115, 116, 97, 114, 116>>, \* |#autostart|
    <<35, 97, 117, 116, 111, 115, 116, 97, 114, 116, 32, 97, 98, 99>>, \* |#autostart abc|
    <<35, 97, 117, 116, 111, 115, 116, 97, 114, 116, 32, 52, 48, 48, 48, 48>>, \* |#autostart 40000|
    <<49, 48, 32, 80, 82, 73, 78, 84, 32, 49>>, \* |10 PRINT 1|
    <<80, 82, 73, 78, 84, 32, 34, 65, 34>>,  \* |PRINT "A"|
    <<32, 51, 48, 32, 71, 79, 32, 84, 79, 32, 49, 48>>, \* | 30 GO TO 10|
    <<53>>,                                  \* |5|
    <<51, 48, 48, 32, 88>>,                  \* |300 X|
    <<49, 48, 12>>,                          \* |10\x0c|
    <<55, 32, 65, 13, 66>>,                  \* |7 A\x0dB|
    <<35, 97, 117, 116, 111, 115, 116, 97, 114, 116, 32, 49, 50, 97, 98, 99>>, \* |#autostart 12abc|
    <<35, 97, 117, 116, 111, 115, 116, 97, 114, 116, 32, 45, 53>>  \* |#autostart -5|
  }
\* the most lines read in one conversion
MaxLines == 2

\* the most calls of ConvertFile on one BasConverter
MaxConversions == 2

Init ==
  /\ semi \in BOOLEAN
  /\ AutoStartLine = NoAutoStart
  /\ currentLineNum = FirstLineNum
  /\ output = <<>>
  /\ src = <<>>
  /\ conversions = 1
  /\ fileOut = <<>>
  /\ epc = "reading"
  /\ LineIdle /\ HdrIdle /\ DecIdle

\* while (std::getline(file, line)) { ... }
ReadLine(raw) ==
  /\ epc = "reading"
  /\ Len(src) < MaxLines
  /\ LET r == ProcessLine(raw, AutoStartLine, currentLineNum, semi)
     IN  /\ AutoStartLine' = r.auto
         /\ currentLineNum' = r.cur
         /\ output' = output \o r.bytes
         \* catch (const std::exception& e) in main: no file is written
         /\ epc' = IF r.kind = "throw" THEN "failed" ELSE epc
  /\ src' = Append(src, raw)
  /\ UNCHANGED <<semi, conversions, fileOut, lineVars, hdrVars, decVars>>

\* getline fails at the end of the file: return output
ReturnOutput ==
  /\ epc = "reading"
  /\ epc' = "returned"
  /\ UNCHANGED <<semi, AutoStartLine, currentLineNum, output, src, conversions,
                 fileOut, lineVars, hdrVars, decVars>>

\* out.write(head); out.write(data)
WriteFile ==
  /\ epc = "returned"
  /\ fileOut' = CreateHeader(Len(output), AutoStartLine) \o output
  /\ epc' = "written"
  /\ UNCHANGED <<semi, AutoStartLine, currentLineNum, output, src, conversions,
                 lineVars, hdrVars, decVars>>

\* a further call of ConvertFile on the same BasConverter
ConvertFile ==
  /\ epc = "written"
  /\ conversions < MaxConversions
  /\ conversions' = conversions + 1
  /\ output' = <<>>
  /\ currentLineNum' = FirstLineNum
  /\ src' = <<>>
  /\ fileOut' = <<>>
  /\ epc' = "reading"
  /\ UNCHANGED <<semi, AutoStartLine, lineVars, hdrVars, decVars>>

Next ==
  \/ \E raw \in SourceLines : ReadLine(raw)
  \/ ReturnOutput
  \/ WriteFile
  \/ ConvertFile

Spec == Init /\ [][Next]_vars

\* what a BasConverter that has converted nothing before makes of a source
RECURSIVE FreshRun(_, _)
FreshRun(lines, sm) ==
  IF lines = <<>>
  THEN [auto |-> NoAutoStart, cur |-> FirstLineNum, out |-> <<>>]
  ELSE LET before == FreshRun(SubSeq(lines, 1, Len(lines) - 1), sm)
           r      == ProcessLine(lines[Len(lines)], before.auto, before.cur, sm)
       IN  [auto |-> r.auto, cur |-> r.cur, out |-> before.out \o r.bytes]

HasAutostartLine(lines) ==
  \E n \in DOMAIN lines : IsAutostart(Trim(lines[n]))

\* C4: the file main writes for a source with no #autostart line carries the
\* sentinel 32768 in its autostart field: header bytes 18 and 19 are 0x00, 0x80.
C4_AutostartSentinel ==
  (epc = "written" /\ conversions = 1 /\ ~HasAutostartLine(src))
    => (At(fileOut, 18) = 0 /\ At(fileOut, 19) = 128)

C4_Witness ==
  /\ epc = "written"
  /\ conversions = 1
  /\ Len(src) = 2
  /\ ~HasAutostartLine(src)
  /\ Len(output) > 0
  /\ At(fileOut, 18) = 0
  /\ At(fileOut, 19) = 128

\* C5: conversions do not interact: what a call of ConvertFile leaves (the
\* bytes, AutoStartLine and so the file written) depends only on the source of
\* that call, so it is what a BasConverter that converted nothing before gives.
C5_NoInteraction ==
  epc = "written" =>
    LET fresh == FreshRun(src, semi)
    IN  /\ output = fresh.out
        /\ AutoStartLine = fresh.auto
        /\ fileOut = CreateHeader(Len(fresh.out), fresh.auto) \o fresh.out

\* the line getline returned last, trimmed
LastLine == Trim(src'[Len(src')])

\* the bytes the last pass of the loop appended to output
Appended == SubSeq(output', Len(output) + 1, Len(output'))

\* a pass of the while (getline) loop
LinePass == epc = "reading" /\ src' # src

\* the record of line number n: four bytes, a payload that ends with 0x0D
RecordLayout(rec, n) ==
  /\ Len(rec) >= 5
  /\ rec[1] = (n \div 256) % 256
  /\ rec[2] = n % 256
  /\ rec[3] = (Len(rec) - 4) % 256
  /\ rec[4] = (Len(rec) - 4) \div 256
  /\ rec[3] + 256 * rec[4] >= 1
  /\ rec[Len(rec)] = 13

\* C13: what a pass of the loop appends for a line that is neither blank nor
\* a # line is one record: line number high byte, low byte, length low byte,
\* high byte, payload; the payload ends with 0x0D and the length counts it;
\* the line 10 followed by a form feed has an empty remainder and gives the
\* payload 0x0D alone.  (The line number is currentLineNum - 10 after the pass.)
C13_RecordLayout ==
  [][LinePass =>
       /\ (LastLine = <<>> \/ LastLine[1] = 35) => Appended = <<>>
       /\ (LastLine # <<>> /\ LastLine[1] # 35)
            => RecordLayout(Appended, currentLineNum' - 10)
       /\ LastLine = <<49, 48, 12>> => Appended = <<0, 10, 1, 0, 13>>]_vars

C13_Witness ==
  /\ epc = "reading"
  /\ src = << <<51, 48, 48, 32, 88>>, <<49, 48, 12>> >>
  /\ output = <<1, 44, 2, 0, 88, 13, 0, 10, 1, 0, 13>>

\* the number of leading digits of a line
RECURSIVE LeadingDigits(_)
LeadingDigits(line) ==
  IF line # <<>> /\ Head(line) \in 48..57
  THEN 1 + LeadingDigits(Tail(line)) ELSE 0

\* a line that begins with digits followed by whitespace
HasLineNumber(line) ==
  /\ LeadingDigits(line) > 0
  /\ LeadingDigits(line) < Len(line)
  /\ line[LeadingDigits(line) + 1] \in {32, 9, 10, 11, 12, 13}

WrittenNumber(line) == DecValue(SubSeq(line, 1, LeadingDigits(line)))

\* the line number in a record
RecordNumber(rec) == rec[1] * 256 + rec[2]

\* C14: the running default is 10 when a conversion starts; a line that
\* begins with digits and whitespace is encoded under that number and sets
\* the default to the number plus 10; any other encoded line, a line of
\* digits only included, is encoded under the default, which then advances
\* by 10; a blank line or a # line appends nothing and leaves the default.
C14_LineNumbering ==
  /\ []((epc = "reading" /\ src = <<>>) => currentLineNum = 10)
  /\ [][LinePass =>
         IF LastLine = <<>> \/ LastLine[1] = 35
         THEN Appended = <<>> /\ currentLineNum' = currentLineNum
         ELSE IF HasLineNumber(LastLine)
         THEN /\ RecordNumber(Appended) = WrittenNumber(LastLine)
              /\ currentLineNum' = WrittenNumber(LastLine) + 10
         ELSE /\ RecordNumber(Appended) = currentLineNum
              /\ currentLineNum' = currentLineNum + 10]_vars

C14_Witness ==
  /\ epc = "reading"
  /\ src = << <<32, 51, 48, 32, 71, 79, 32, 84, 79, 32, 49, 48>>, <<53>> >>
  /\ currentLineNum = 50
  /\ SubSeq(output, Len(output) - 11, Len(output))
       = <<0, 40, 8, 0, 53, 14, 0, 0, 5, 0, 0, 13>>

\* the second whitespace-separated word of a line, <<>> when there is none
SecondWord(line) ==
  LET wordEnd == RunEnd(line, 0, NonSpaces)
      start   == RunEnd(line, wordEnd, Spaces)
      end     == RunEnd(line, start, NonSpaces)
  IN  Substr(line, start, end - start)

\* a decimal number: one digit or more and nothing else
IsDecimal(word) == word # <<>> /\ \A p \in DOMAIN word : word[p] \in 48..57

\* C15: a #autostart line whose operand is missing or is not a decimal number
\* leaves AutoStartLine as it was and appends no record.
C15_MalformedIgnored ==
  [][(LinePass /\ IsAutostart(LastLine) /\ ~IsDecimal(SecondWord(LastLine)))
       => (AutoStartLine' = AutoStartLine /\ Appended = <<>>)]_vars

\* the records of a byte sequence, cut by their length fields
RECURSIVE SplitRecords(_)
SplitRecords(bytes) ==
  IF bytes = <<>> THEN <<>>
  ELSE IF Len(bytes) < 4 \/ 4 + bytes[3] + 256 * bytes[4] > Len(bytes)
  THEN <<bytes>>
  ELSE LET n == 4 + bytes[3] + 256 * bytes[4]
       IN  <<SubSeq(bytes, 1, n)>> \o SplitRecords(SubSeq(bytes, n + 1, Len(bytes)))

\* a source line that is neither blank after trimming nor a # line
IsKept(raw) == Trim(raw) # <<>> /\ Trim(raw)[1] # 35

KeptLines(lines) == SelectSeq(lines, IsKept)

\* the payload and terminator of a record
RecordPayload(rec) == SubSeq(rec, 5, Len(rec))

\* C21: the records of output are, in number and in order, the source lines
\* read so far that are neither blank nor # lines: record i carries the
\* encoding of kept line i, under that line's own number when it has one,
\* whatever the numbers of the records before it.
C21_SourceOrder ==
  LET recs == SplitRecords(output)
      kept == KeptLines(src)
  IN  /\ Len(recs) = Len(kept)
      /\ \A i \in 1..Len(kept) :
           LET line == Trim(kept[i])
           IN  /\ i <= Len(recs)
               /\ RecordPayload(recs[i])
                    = RecordPayload(ParseLine(0, LineRegex(line).rest, semi))
               /\ HasLineNumber(line) =>
                    RecordNumber(recs[i]) = WrittenNumber(line) % 65536
      /\ (Len(src) = 2 /\ Trim(src[1]) = <<51, 48, 32, 71, 79, 32, 84, 79, 32, 49, 48>>
            /\ src[2] = <<49, 48, 32, 80, 82, 73, 78, 84, 32, 49>>) =>
           (RecordNumber(recs[1]) = 30 /\ RecordNumber(recs[2]) = 10)

\* 30 GO TO 10 read before 10 PRINT 1
C21_Witness ==
  /\ epc = "returned"
  /\ src = << <<32, 51, 48, 32, 71, 79, 32, 84, 79, 32, 49, 48>>,
              <<49, 48, 32, 80, 82, 73, 78, 84, 32, 49>> >>
  /\ Len(SplitRecords(output)) = 2
  /\ SubSeq(output, 1, 2) = <<0, 30>>
  /\ RecordNumber(SplitRecords(output)[2]) = 10

----------------------------------------------------------------------------
(* txt2bas on sources with line numbers above 65535 (LargeSpec).            *)

LargeLines ==
  {
    <<54, 53, 53, 52, 54, 32, 88>>,          \* |65546 X|
    <<54, 53, 53, 51, 48, 32, 88>>,          \* |65530 X|
    <<54, 53, 53, 51, 53, 32, 88>>,          \* |65535 X|
    <<55, 48, 48, 48, 48, 32, 71, 79, 32, 84, 79, 32, 49, 48>>, \* |70000 GO TO 10|
    <<88>>,                                  \* |X|
    <<80, 82, 73, 78, 84, 32, 49>>,          \* |PRINT 1|
    <<49, 51, 49, 48, 56, 50, 32, 88>>,      \* |131082 X|
    <<50, 49, 52, 55, 52, 56, 51, 54, 52, 56, 32, 88>>, \* |2147483648 X|
    <<57, 57, 57, 57, 57, 57, 57, 57, 57, 57, 57, 32, 80, 82, 73, 78, 84, 32, 49>>  \* |99999999999 PRINT 1|
  }
LargeNext ==
  \/ \E raw \in LargeLines : ReadLine(raw)
  \/ ReturnOutput
  \/ WriteFile

LargeSpec == Init /\ [][LargeNext]_vars

\* C30: a line that is encoded raises no error; an explicit number n, above
\* 65535 included, is stored as n mod 65536, high byte first, and the
\* running default becomes n + 10 unreduced; a line without a number is
\* stored under the running default mod 65536 and the default advances by 10.
C30_LargeLineNumbers ==
  [][(LinePass /\ LastLine # <<>> /\ LastLine[1] # 35) =>
       /\ epc' = "reading"
       /\ IF HasLineNumber(LastLine)
          THEN /\ RecordNumber(Appended) = WrittenNumber(LastLine) % 65536
               /\ currentLineNum' = WrittenNumber(LastLine) + 10
          ELSE /\ RecordNumber(Appended) = currentLineNum % 65536
               /\ currentLineNum' = currentLineNum + 10]_vars

----------------------------------------------------------------------------
(* ParseLine on one line text, one iteration of its scan loop per step;     *)
(* then bas2txt on the record and txt2bas on the text it gives.             *)

\* ConvertFile passes ParseLine a trimmed, non-empty text: a first piece
\* followed by at most MaxTail pieces.
Heads ==
  {
    <<>>,                                    \* ||
    <<71, 79, 32, 84, 79, 32>>,              \* |GO TO |
    <<71, 79, 84, 79, 32>>,                  \* |GOTO |
    <<103, 111, 32, 116, 111, 32>>,          \* |go to |
    <<71, 79, 32, 83, 85, 66, 32>>,          \* |GO SUB |
    <<68, 69, 70, 32, 70, 78, 32>>,          \* |DEF FN |
    <<68, 69, 70, 80, 82, 79, 67, 32>>,      \* |DEFPROC |
    <<69, 78, 68, 80, 82, 79, 67, 32>>,      \* |ENDPROC |
    <<80, 69, 69, 75, 36, 32>>,              \* |PEEK$ |
    <<80, 69, 69, 75, 32>>,                  \* |PEEK |
    <<86, 65, 76, 36, 32>>,                  \* |VAL$ |
    <<86, 65, 76, 32>>,                      \* |VAL |
    <<70, 78, 32>>,                          \* |FN |
    <<80, 82, 79, 67, 32>>,                  \* |PROC |
    <<84, 72, 69, 78, 32>>,                  \* |THEN |
    <<73, 70, 32>>,                          \* |IF |
    <<82, 69, 77, 32>>,                      \* |REM |
    <<71, 79, 32, 84, 79>>,                  \* |GO TO|
    <<68, 69, 70, 32, 70, 78>>,              \* |DEF FN|
    <<68, 69, 70, 80, 82, 79, 67>>,          \* |DEFPROC|
    <<69, 78, 68, 80, 82, 79, 67>>,          \* |ENDPROC|
    <<80, 69, 69, 75, 36>>,                  \* |PEEK$|
    <<86, 65, 76, 36>>,                      \* |VAL$|
    <<84, 79>>,                              \* |TO|
    <<71, 79, 32>>,                          \* |GO |
    <<70, 79, 82, 75>>,                      \* |FORK|
    <<83, 80, 82, 73, 78, 84>>,              \* |SPRINT|
    <<84, 79, 84, 65, 76>>,                  \* |TOTAL|
    <<86, 65, 76, 36, 97, 36>>,              \* |VAL$a$|
    <<79, 80, 69, 78, 32, 35>>,              \* |OPEN #|
    <<67, 72, 82, 36>>,                      \* |CHR$|
    <<60, 61>>,                              \* |<=|
    <<60, 62>>,                              \* |<>|
    <<58, 32>>,                              \* |: |
    <<45>>,                                  \* |-|
    <<49, 48, 48>>,                          \* |100|
    <<51, 46, 49, 52>>,                      \* |3.14|
    <<34, 71, 79, 32, 84, 79>>,              \* |"GO TO|
    <<65, 60, 61, 66>>,                      \* |A<=B|
    <<65, 60, 60, 66, 62, 62, 67>>,          \* |A<<B>>C|
    <<49, 62, 61, 50, 60, 62, 51>>           \* |1>=2<>3|
  }
TailPieces ==
  {
    <<80, 82, 73, 78, 84, 32>>,              \* |PRINT |
    <<49, 48>>,                              \* |10|
    <<34, 65, 34>>,                          \* |"A"|
    <<32>>,                                  \* | |
    <<88>>,                                  \* |X|
    <<59>>                                   \* |;|
  }
\* the most pieces after the first
MaxTail == 2

TailSeqs == UNION {[1..n -> TailPieces] : n \in 0..MaxTail}

ScanTexts == {Trim(h \o Concat(ts)) : h \in Heads, ts \in TailSeqs} \ {<<>>}

\* the line number ParseLine is given
ScanLineNum == 10

ScanInit(texts) ==
  /\ text \in texts
  /\ scanPos = 0
  /\ lineData = <<>>
  /\ finalLine = <<>>
  /\ last = NoStep
  /\ lpc = "scan"
  /\ decoded = <<>>
  /\ reencoded = <<>>
  /\ number = Number(FALSE, 0, FALSE)
  /\ packed = <<>>

LineInit ==
  /\ semi \in BOOLEAN
  /\ ScanInit(ScanTexts)
  /\ EncIdle /\ HdrIdle /\ DecIdle

\* one iteration of for (size_t i = 0; i < text.length(); i++): the branch taken
\* appends its bytes to lineData and moves i
TakeStep ==
  LET s == ScanStep(text, scanPos, semi)
  IN  /\ lineData' = lineData \o s.out
      /\ scanPos' = s.next
      /\ last' = [kind |-> s.kind, out |-> s.out, next |-> s.next,
                  key |-> s.key, at |-> scanPos]
      /\ UNCHANGED <<semi, text, finalLine, lpc, decoded, reencoded, number,
                     packed, encVars, hdrVars, decVars>>

Scanning(kind) ==
  /\ lpc = "scan"
  /\ scanPos < Len(text)
  /\ StepKind(text, scanPos, semi) = kind

\* Handle Strings
ScanString ==
  /\ Scanning("string")
  /\ TakeStep

\* Handle Numbers
ScanNumber ==
  /\ Scanning("number")
  /\ TakeStep

\* Comment Handling
ScanComment ==
  /\ Scanning("comment")
  /\ TakeStep

\* Handle Tokens
ScanKeyword ==
  /\ Scanning("keyword")
  /\ TakeStep

\* if (!matched) lineData.push_back(text[i])
ScanLiteral ==
  /\ Scanning("literal")
  /\ TakeStep

\* lineData.push_back(0x0D) and the assembly of finalLine
FinishLine ==
  /\ lpc = "scan"
  /\ scanPos >= Len(text)
  /\ lineData' = lineData \o <<13>>
  /\ finalLine' = FinalLine(ScanLineNum, lineData')
  /\ lpc' = "done"
  /\ UNCHANGED <<semi, text, scanPos, last, decoded, reencoded, number, packed,
                 encVars, hdrVars, decVars>>

\* bas2txt on the record
DecodeBack ==
  /\ lpc = "done"
  /\ decoded' = Parse(finalLine)
  /\ lpc' = "decoded"
  /\ UNCHANGED <<semi, text, scanPos, lineData, finalLine, last, reencoded,
                 number, packed, encVars, hdrVars, decVars>>

\* txt2bas on the text bas2txt gave
ReEncode ==
  /\ lpc = "decoded"
  /\ reencoded' = FreshRun(decoded, semi).out
  /\ lpc' = "reencoded"
  /\ UNCHANGED <<semi, text, scanPos, lineData, finalLine, last, decoded,
                 number, packed, encVars, hdrVars, decVars>>

ScanNext ==
  \/ ScanString
  \/ ScanNumber
  \/ ScanComment
  \/ ScanKeyword
  \/ ScanLiteral
  \/ FinishLine

LineNext ==
  \/ ScanNext
  \/ DecodeBack
  \/ ReEncode

LineSpec == LineInit /\ [][LineNext]_vars

----------------------------------------------------------------------------
(* Properties of the scan loop (LineSpec).                                  *)

\* the keys the keyword loop would take at position i of txt
MatchingKeys(txt, i) ==
  {k \in {SortedKeys[n] : n \in DOMAIN SortedKeys} : KeyMatches(txt, i, k)}

\* the payload of a record: what follows its 4-byte record header
Payload(rec) == SubstrFrom(rec, 4)

\* line texts and the lineData ParseLine builds for them, before the 0x0D
PrecedenceCases ==
  { << <<71,79,32,84,79,32,49,48>>,          \* |GO TO 10|
       <<236,49,48,14,0,0,10,0,0>> >>,
    << <<68,69,70,32,70,78>>, <<206>> >>,    \* |DEF FN|
    << <<68,69,70,80,82,79,67>>, <<145>> >>, \* |DEFPROC|
    << <<69,78,68,80,82,79,67>>, <<146>> >>, \* |ENDPROC|
    << <<80,69,69,75,36>>, <<135>> >>,       \* |PEEK$|
    << <<86,65,76,36>>, <<174>> >> }         \* |VAL$|

\* C6: longest-match precedence.  An iteration of the scan loop that takes a
\* keyword takes the longest of the keys that match at its position and emits
\* that key's code; an iteration that emits the character raw had no matching
\* key.  GO TO 10 is 0xEC and the number 10; DEF FN, DEFPROC, ENDPROC, PEEK$
\* and VAL$ are one token each.
C6_LongestMatch ==
  /\ last.kind = "keyword" =>
       /\ last.key \in MatchingKeys(text, last.at)
       /\ \A k \in MatchingKeys(text, last.at) : Len(k) <= Len(last.key)
       /\ last.out[1] = MapCode(last.key)
  /\ last.kind = "literal" => MatchingKeys(text, last.at) = {}
  /\ lpc = "done" =>
       \A c \in PrecedenceCases : text = c[1] => lineData = c[2] \o <<13>>

C6_Witness ==
  /\ lpc = "scan"
  /\ last.kind = "keyword"
  /\ last.key = <<80,69,69,75,36>>
  /\ Cardinality(MatchingKeys(text, last.at)) > 1
  /\ last.out[1] = 135

\* lines of keywords, each followed by one space, ending in an integer literal
\* or a string literal
ClassHeads ==
  {
    <<84, 72, 69, 78, 32>>,                  \* |THEN |
    <<73, 70, 32>>,                          \* |IF |
    <<71, 79, 32, 84, 79, 32>>,              \* |GO TO |
    <<71, 79, 32, 83, 85, 66, 32>>,          \* |GO SUB |
    <<68, 69, 70, 32, 70, 78, 32>>,          \* |DEF FN |
    <<86, 65, 76, 32>>                       \* |VAL |
  }
ClassArgs ==
  {
    <<49, 48>>,                              \* |10|
    <<34, 65, 34>>                           \* |"A"|
  }
PrintWord == <<80,82,73,78,84,32>>

ClassTexts ==
  {h \o m \o a : h \in ClassHeads, m \in {<<>>, PrintWord}, a \in ClassArgs}

\* C2: for a line of keywords with one space after each, integers in range
\* and string literals, encoding the text bas2txt gives for the record gives
\* the payload of the first encoding again.
C2_RoundTrip ==
  (lpc = "reencoded" /\ text \in ClassTexts)
    => Payload(reencoded) = Payload(finalLine)

\* position i of txt is the first of the line text, or the nearest character
\* before it that is not a space is ':'
AfterColonOrFirst(txt, i) ==
  \/ i = 0
  \/ \E j \in 0..(i - 1) :
       /\ At(txt, j) = 58
       /\ \A k \in (j + 1)..(i - 1) : At(txt, k) = 32

\* no letter and no double quote stands before position i: the scan loop
\* reaches i outside any string literal, REM text or keyword
PlainBefore(txt, i) ==
  \A j \in 0..(i - 1) : ~isalpha(At(txt, j)) /\ At(txt, j) # 34

\* the last n bytes of s
Suffix(s, n) == SubSeq(s, Len(s) - n + 1, Len(s))

\* C16: when the scan loop meets a ';' that is first in the line text or
\* follows a ':' (spaces apart), the payload ends with the ';' and the rest of
\* the line as they are written, then 0x0D: no token code, no 0x0E marker.
C16_CommentVerbatim ==
  lpc = "done" =>
    \A i \in 0..(Len(text) - 1) :
      (At(text, i) = 59 /\ AfterColonOrFirst(text, i) /\ PlainBefore(text, i))
        => Suffix(lineData, Len(text) - i + 1) = SubstrFrom(text, i) \o <<13>>

\* the symbolic keywords and their codes
SymbolCodes ==
  { << <<60, 60>>, 140 >>,   \* |<<|
    << <<62, 62>>, 141 >>,   \* |>>|
    << <<60, 61>>, 199 >>,   \* |<=|
    << <<62, 61>>, 200 >>,   \* |>=|
    << <<60, 62>>, 201 >> }  \* |<>|

\* keyword spellings inside longer identifiers
Identifiers ==
  { <<70, 79, 82, 75>>,              \* |FORK|
    <<83, 80, 82, 73, 78, 84>>,      \* |SPRINT|
    <<84, 79, 84, 65, 76>> }         \* |TOTAL|

\* C17: an iteration of the scan loop takes a keyword that begins with a
\* letter only where the character before it is not a letter (or it is first)
\* and the character after it is not a letter or a digit (or it is last);
\* FORK, SPRINT and TOTAL are copied as they are; an iteration that stands on
\* <<, >>, <=, >= or <> emits its code whatever stands around it.
C17_WordBoundary ==
  /\ (last.kind = "keyword" /\ isalpha(last.key[1])) =>
       /\ last.at = 0 \/ ~isalpha(At(text, last.at - 1))
       /\ \/ last.at + Len(last.key) >= Len(text)
          \/ ~isalnum(At(text, last.at + Len(last.key)))
  /\ (lpc = "done" /\ text \in Identifiers) => lineData = text \o <<13>>
  /\ \A c \in SymbolCodes :
       (last.kind # "none" /\ last.at + 2 <= Len(text)
          /\ Substr(text, last.at, 2) = c[1])
         => (last.kind = "keyword" /\ last.out = <<c[2]>>)

C17_Witness ==
  /\ lpc = "scan"
  /\ Len(text) >= 4
  /\ SubSeq(text, 1, 4) = <<65, 60, 61, 66>>
  /\ last.kind = "keyword"
  /\ last.at = 1
  /\ last.out = <<199>>

\* the positions of the double quotes after position i
QuotesAfter(txt, i) == {j \in (i + 1)..(Len(txt) - 1) : At(txt, j) = 34}

\* the literal that starts at the double quote at i: through the next double
\* quote, or through the end of the line when there is none
StringLiteral(txt, i) ==
  IF QuotesAfter(txt, i) = {} THEN SubstrFrom(txt, i)
  ELSE LET close == CHOOSE j \in QuotesAfter(txt, i) :
                      \A k \in QuotesAfter(txt, i) : j <= k
       IN  Substr(txt, i, close - i + 1)

NonSpaceFrom(txt, i) == {j \in i..(Len(txt) - 1) : At(txt, j) # 32}

\* the first position from i on that is not a space, the end when all are
PastSpaces(txt, i) ==
  IF NonSpaceFrom(txt, i) = {} THEN Len(txt)
  ELSE CHOOSE j \in NonSpaceFrom(txt, i) : \A k \in NonSpaceFrom(txt, i) : j <= k

\* C19: an iteration that matches REM emits 0xEA and then every remaining
\* character of the line as it stands, and ends the scan of the line; an
\* iteration that matches any other keyword emits its code alone and resumes
\* after the run of spaces that follows the keyword.
C19_RemAndSpaces ==
  last.kind = "keyword" =>
    LET after == last.at + Len(last.key)
    IN  IF last.out[1] = 234
        THEN /\ last.out = <<234>> \o SubstrFrom(text, after)
             /\ last.next >= Len(text)
             /\ scanPos >= Len(text)
        ELSE /\ Len(last.out) = 1
             /\ last.out[1] \in 135..255
             /\ last.next = PastSpaces(text, after)

\* "REM PRINT 10": REM, a space, a keyword and a digit run
C19_Witness ==
  /\ lpc = "done"
  /\ text = <<82, 69, 77, 32, 80, 82, 73, 78, 84, 32, 49, 48>>
  /\ last.kind = "keyword"
  /\ last.at = 0
  /\ lineData = <<234, 32, 80, 82, 73, 78, 84, 32, 49, 48, 13>>

\* the keys that begin with a letter and end with neither a letter nor a digit
MixedKeys ==
  {Keys[n] : n \in {m \in DOMAIN Keys :
                      isalpha(Keys[m][1]) /\ ~isalnum(Keys[m][Len(Keys[m])])}}

\* k is spelled at position i of txt, in either case, with a letter or a
\* digit right after it
SpelledBeforeWord(txt, i, k) ==
  /\ i + Len(k) < Len(txt)
  /\ \A p \in 1..Len(k) : toupper(txt[i + p]) = toupper(k[p])
  /\ txt[i + Len(k) + 1] \in (48..57) \cup (65..90) \cup (97..122)

\* C27: OPEN #, CLOSE #, CHR$, STR$, VAL$, PEEK$, INKEY$ and SCREEN$ are the
\* keys that begin with a letter and end with another character; an
\* iteration standing on one of them with a letter or a digit right after it
\* does not emit its code: VAL$a$ gives VAL, $, a, $; PEEK$X gives PEEK, $, X;
\* OPEN #10 and CHR$10 stay as written, followed by the encoding of 10.
C27_MixedKeyBoundary ==
  /\ MixedKeys = {<<79, 80, 69, 78, 32, 35>>, <<67, 76, 79, 83, 69, 32, 35>>,
                  <<67, 72, 82, 36>>, <<83, 84, 82, 36>>, <<86, 65, 76, 36>>,
                  <<80, 69, 69, 75, 36>>, <<73, 78, 75, 69, 89, 36>>,
                  <<83, 67, 82, 69, 69, 78, 36>>}
  /\ last.kind # "none" =>
       \A k \in MixedKeys :
         SpelledBeforeWord(text, last.at, k) =>
           ~(last.kind = "keyword" /\ last.out[1] = MapCode(k))
  /\ lpc = "done" =>
       /\ text = <<86, 65, 76, 36, 97, 36>> => lineData = <<176, 36, 97, 36, 13>>
       /\ text = <<80, 69, 69, 75, 36, 88>> => lineData = <<190, 36, 88, 13>>
       /\ text = <<79, 80, 69, 78, 32, 35, 49, 48>> =>
            lineData = <<79, 80, 69, 78, 32, 35, 49, 48, 14, 0, 0, 10, 0, 0, 13>>
       /\ text = <<67, 72, 82, 36, 49, 48>> =>
            lineData = <<67, 72, 82, 36, 49, 48, 14, 0, 0, 10, 0, 0, 13>>

\* OPEN #10 scanned to its end
C27_Witness ==
  /\ lpc = "done"
  /\ text = <<79, 80, 69, 78, 32, 35, 49, 48>>
  /\ lineData = <<79, 80, 69, 78, 32, 35, 49, 48, 14, 0, 0, 10, 0, 0, 13>>

----------------------------------------------------------------------------
(* The two token tables against each other: txt2bas on every spelling of    *)
(* either table, then bas2txt on the record and txt2bas on its text.        *)

\* the token codes of NextBASIC
TokenCodes == 135..255

\* every key of TokenMap and every spelling of ReverseTokenMap
TableTexts ==
  {Keys[n] : n \in DOMAIN Keys}
    \cup {ReverseTokenEntries[n][2] : n \in DOMAIN ReverseTokenEntries}

TableInit ==
  /\ semi \in BOOLEAN
  /\ ScanInit(TableTexts)
  /\ EncIdle /\ HdrIdle /\ DecIdle

TableNext ==
  \/ ScanKeyword
  \/ FinishLine
  \/ DecodeBack
  \/ ReEncode

TableSpec == TableInit /\ [][TableNext]_vars

\* the entries of ReverseTokenMap written for code c
SpellingsOf(c) ==
  {n \in DOMAIN ReverseTokenEntries : ReverseTokenEntries[n][1] = c}

\* the two pairs of keys that are allowed to share a code
AliasPairs ==
  {{<<71, 79, 84, 79>>, <<71, 79, 32, 84, 79>>},                \* GOTO, GO TO
   {<<71, 79, 83, 85, 66>>, <<71, 79, 32, 83, 85, 66>>}}        \* GOSUB, GO SUB

\* C20: the decoder's table has one spelling for each code 0x87..0xFF and
\* none for any other byte; every key of the encoder's table has a code in
\* 0x87..0xFF; the encoder's code of the decoder's spelling of c is c, in the
\* table and in the record txt2bas makes of the spelling; two keys share a
\* code only as GOTO/GO TO (0xEC) and GOSUB/GO SUB (0xED), which the decoder
\* spells GO TO and GO SUB.
C20_TablesConsistent ==
  LET decode == ReverseTokenMap
  IN  /\ DOMAIN decode = TokenCodes
      /\ \A c \in 0..255 :
           Cardinality(SpellingsOf(c)) = (IF c \in TokenCodes THEN 1 ELSE 0)
      /\ \A n \in DOMAIN TokenMap : TokenMap[n][2] \in TokenCodes
      /\ \A c \in TokenCodes :
           /\ \E n \in DOMAIN Keys : Keys[n] = decode[c]
           /\ MapCode(decode[c]) = c
      /\ \A n, m \in DOMAIN TokenMap :
           (n # m /\ TokenMap[n][2] = TokenMap[m][2]) =>
             /\ {TokenMap[n][1], TokenMap[m][1]} \in AliasPairs
             /\ TokenMap[n][2] \in {236, 237}
      /\ MapCode(<<71, 79, 84, 79>>) = 236
      /\ MapCode(<<71, 79, 32, 84, 79>>) = 236
      /\ MapCode(<<71, 79, 83, 85, 66>>) = 237
      /\ MapCode(<<71, 79, 32, 83, 85, 66>>) = 237
      /\ decode[236] = <<71, 79, 32, 84, 79>>
      /\ decode[237] = <<71, 79, 32, 83, 85, 66>>
      /\ (lpc \in {"done", "decoded", "reencoded"}) =>
           /\ \A c \in TokenCodes : text = decode[c] => lineData = <<c, 13>>
           /\ lineData[1] \in TokenCodes
           /\ Len(lineData) = 2
      /\ lpc = "reencoded" => reencoded = finalLine

\* GOTO encoded as 0xEC, decoded as GO TO, encoded as 0xEC again
C20_Witness ==
  /\ lpc = "reencoded"
  /\ text = <<71, 79, 84, 79>>
  /\ lineData = <<236, 13>>
  /\ reencoded = <<0, 10, 2, 0, 236, 13>>

----------------------------------------------------------------------------
(* Numbers (NumberSpec): ParseLine on line texts that hold a numeric        *)
(* literal, and SinclairNumber::Pack called on its own.  Literals are short *)
(* enough for the double std::stod returns to be the decimal value written. *)

\* the largest integer literal of the consecutive range
MaxLiteral == 300
\* the largest magnitude Pack is called with
MaxMagnitude == 65600

NumberSamples ==
  {
    <<51, 46, 49, 52>>,                      \* |3.14|
    <<49, 46, 53>>,                          \* |1.5|
    <<51, 46, 48>>,                          \* |3.0|
    <<46, 53>>,                              \* |.5|
    <<53, 46>>,                              \* |5.|
    <<49, 46, 50, 46, 51>>,                  \* |1.2.3|
    <<48, 46, 48>>,                          \* |0.0|
    <<48, 48, 55>>,                          \* |007|
    <<49, 48, 48, 48>>,                      \* |1000|
    <<51, 50, 55, 54, 55>>,                  \* |32767|
    <<51, 50, 55, 54, 56>>,                  \* |32768|
    <<54, 53, 53, 51, 52>>,                  \* |65534|
    <<54, 53, 53, 51, 53>>,                  \* |65535|
    <<54, 53, 53, 51, 54>>,                  \* |65536|
    <<54, 53, 53, 51, 55>>,                  \* |65537|
    <<49, 48, 48, 48, 48, 48>>               \* |100000|
  }
NumberPrefixes ==
  {
    <<>>,                                    \* ||
    <<45>>,                                  \* |-|
    <<65>>,                                  \* |A|
    <<88, 61>>,                              \* |X=|
    <<80, 82, 73, 78, 84, 32>>,              \* |PRINT |
    <<34>>,                                  \* |"|
    <<82, 69, 77, 32>>,                      \* |REM |
    <<59, 32>>                               \* |; |
  }
NumberSuffixes ==
  {
    <<>>,                                    \* ||
    <<58>>,                                  \* |:|
    <<32, 84, 79, 32, 50>>                   \* | TO 2|
  }
NumberLiterals == {IntToStr(n) : n \in 0..MaxLiteral} \cup NumberSamples

NumberTexts ==
  {Trim(p \o l \o s) : p \in NumberPrefixes, l \in NumberLiterals,
                       s \in NumberSuffixes}

PackArgs == [neg : BOOLEAN, ip : 0..MaxMagnitude, fnz : BOOLEAN]

PackInit ==
  /\ text = <<>>
  /\ scanPos = 0
  /\ lineData = <<>>
  /\ finalLine = <<>>
  /\ last = NoStep
  /\ lpc = "pack"
  /\ decoded = <<>>
  /\ reencoded = <<>>
  /\ number \in PackArgs
  /\ packed = <<>>

NumberInit ==
  /\ \/ semi \in BOOLEAN /\ ScanInit(NumberTexts)
     \/ semi = FALSE /\ PackInit
  /\ EncIdle /\ HdrIdle /\ DecIdle

\* std::vector<uint8_t> packed = SinclairNumber::Pack(number)
CallPack ==
  /\ lpc = "pack"
  /\ packed' = Pack(number)
  /\ lpc' = "packed"
  /\ UNCHANGED <<semi, text, scanPos, lineData, finalLine, last, decoded,
                 reencoded, number, encVars, hdrVars, decVars>>

NumberNext ==
  \/ ScanNext
  \/ CallPack

NumberSpec == NumberInit /\ [][NumberNext]_vars

\* the literal the last iteration of the scan loop consumed
LastLiteral == Substr(text, last.at, last.next - last.at)

AllDigits(s) == \A p \in DOMAIN s : isdigit(s[p])

\* the five bytes of an integer of magnitude n in 0..65535
IntegerForm(sign, n) == <<0, sign, n % 256, n \div 256, 0>>

\* C7: an unsigned integer literal n <= 65535 outside strings and comments is
\* emitted as its digits, 0x0E and 00 00 lo hi 00; wherever the scan loop
\* stands on a digit it takes the number branch; and Pack of an integer v in
\* -65535..65535 is 00 s lo hi 00 with s = 0xFF exactly when v < 0.
C7_IntegerPacking ==
  /\ (last.kind = "number" /\ AllDigits(LastLiteral)
        /\ DecValue(LastLiteral) <= 65535)
       => last.out = LastLiteral \o <<14>>
                       \o IntegerForm(0, DecValue(LastLiteral))
  /\ (lpc = "scan" /\ scanPos < Len(text) /\ isdigit(At(text, scanPos)))
       => StepKind(text, scanPos, semi) = "number"
  /\ (lpc = "done" /\ text = <<49, 48, 48>>)
       => lineData = <<49, 48, 48, 14, 0, 0, 100, 0, 0, 13>>
  /\ (lpc = "packed" /\ ~number.fnz /\ number.ip <= 65535)
       => packed = IntegerForm(IF number.neg /\ number.ip > 0 THEN 255 ELSE 0,
                               number.ip)

C7_Witness ==
  /\ lpc = "scan"
  /\ last.kind = "number"
  /\ LastLiteral = <<54, 53, 53, 51, 53>>
  /\ last.at > 0
  /\ last.out = <<54, 53, 53, 51, 53, 14, 0, 0, 255, 255, 0>>

C29_SignByteZero ==
  /\ last.kind = "number" =>
       LET n == Len(last.out)
       IN  /\ LastLiteral # <<>>
           /\ \A p \in DOMAIN LastLiteral : LastLiteral[p] \in (48..57) \cup {46}
           /\ ~Stod(LastLiteral).neg
           /\ n = Len(LastLiteral) + 6
           /\ last.out[n - 5] = 14
           /\ last.out[n - 4] = 0
           /\ last.out[n - 3] = 0
           /\ (lpc = "scan" /\ last.at > 0 /\ At(text, last.at - 1) = 45) =>
                (Len(lineData) > n /\ lineData[Len(lineData) - n] = 45)
  /\ (lpc = "done" /\ text = <<45, 49, 48>>) =>
       lineData = <<45, 49, 48, 14, 0, 0, 10, 0, 0, 13>>

C29_Witness ==
  /\ lpc = "done"
  /\ text = <<45, 49, 48>>
  /\ last.kind = "number"
  /\ last.at = 1
  /\ lineData = <<45, 49, 48, 14, 0, 0, 10, 0, 0, 13>>
----------------------------------------------------------------------------
(* Plus3Dos::CreateHeader, one write per step (HeaderSpec).                 *)

\* the largest length of the consecutive range of basicLength
MaxHeaderLen == 300

\* lengths around the byte boundaries of the two size fields
LengthSamples ==
  {1000, 32767, 65407, 65408, 65535, 65536, 16777087, 16777088, 16777216}

HeaderLengths == 0..MaxHeaderLen \cup LengthSamples

HeaderAutoStarts ==
  {-1, 0, 1, 10, 255, 256, 9999, 32767, 32768, 40000, 65546,
   -5, -32768, -65526, 2147483647}

\* the bytes ConvertFile returned to main: none, one record, two records
MainPayloads ==
  {<<>>, <<0, 10, 2, 0, 65, 13>>, <<0, 10, 2, 0, 65, 13, 0, 20, 1, 0, 13>>}

\* CreateHeader called on its own with any arguments
DirectCall ==
  /\ basicLength \in HeaderLengths
  /\ autoStartLine \in HeaderAutoStarts
  /\ EncIdle

\* CreateHeader(static_cast<int>(data.size()), converter.AutoStartLine) in main
MainCall ==
  /\ output \in MainPayloads
  /\ AutoStartLine \in HeaderAutoStarts
  /\ basicLength = Len(output)
  /\ autoStartLine = AutoStartLine
  /\ currentLineNum = FirstLineNum
  /\ src = <<>>
  /\ conversions = 1
  /\ fileOut = <<>>
  /\ epc = "returned"

HeaderInit ==
  /\ DirectCall \/ MainCall
  /\ header = EmptyHeader
  /\ written = 0
  /\ semi = FALSE
  /\ LineIdle /\ DecIdle

DoWrite(step) ==
  /\ header' = HeaderWrite(header, step, basicLength, autoStartLine)
  /\ written' = step
  /\ UNCHANGED <<semi, basicLength, autoStartLine, encVars, lineVars, decVars>>

\* std::copy(sig.begin(), sig.end(), header.begin())
WriteSignature ==
  /\ written = 0
  /\ DoWrite(1)

\* header[8] = 0x1A
WriteSoftEof ==
  /\ written = 1
  /\ DoWrite(2)

\* header[9] = 0x01; header[10] = 0x00
WriteIssueVersion ==
  /\ written = 2
  /\ DoWrite(3)

\* header[11..14] = totalFileSize
WriteFileSize ==
  /\ written = 3
  /\ DoWrite(4)

\* header[15] = 0x00
WriteType ==
  /\ written = 4
  /\ DoWrite(5)

\* header[16..17] = basicLength
WriteLength ==
  /\ written = 5
  /\ DoWrite(6)

\* header[18..19] = the autostart line or 32768
WriteAutoStart ==
  /\ written = 6
  /\ DoWrite(7)

\* header[20..21] = basicLength
WriteVarsOffset ==
  /\ written = 7
  /\ DoWrite(8)

\* header[127] = sum % 256
WriteChecksum ==
  /\ written = 8
  /\ DoWrite(9)

\* out.write(head); out.write(data)
WriteOut ==
  /\ epc = "returned"
  /\ written = HeaderWrites
  /\ fileOut' = header \o output
  /\ epc' = "written"
  /\ UNCHANGED <<semi, AutoStartLine, currentLineNum, output, src, conversions,
                 lineVars, hdrVars, decVars>>

HeaderNext ==
  \/ WriteSignature
  \/ WriteSoftEof
  \/ WriteIssueVersion
  \/ WriteFileSize
  \/ WriteType
  \/ WriteLength
  \/ WriteAutoStart
  \/ WriteVarsOffset
  \/ WriteChecksum
  \/ WriteOut

HeaderSpec == HeaderInit /\ [][HeaderNext]_vars

\* the sum of the bytes of s
RECURSIVE ByteSum(_)
ByteSum(s) ==
  IF Len(s) = 0 THEN 0
  ELSE IF Len(s) = 1 THEN s[1]
  ELSE LET mid == Len(s) \div 2
       IN  ByteSum(SubSeq(s, 1, mid)) + ByteSum(SubSeq(s, mid + 1, Len(s)))

\* C3: the header CreateHeader returns has 128 bytes and its last byte is the
\* sum of the 127 before it modulo 256; byte 127 is still 0 while any other
\* field remains to be written, so the sum covers every field.
C3_Checksum ==
  /\ written < HeaderWrites => At(header, 127) = 0
  /\ written = HeaderWrites =>
       /\ Len(header) = 128
       /\ At(header, 127) = ByteSum(SubSeq(header, 1, 127)) % 256
       /\ header = CreateHeader(basicLength, autoStartLine)

C3_Witness ==
  /\ written = HeaderWrites
  /\ basicLength = 65536
  /\ autoStartLine = 9999
  /\ At(header, 127) = ByteSum(SubSeq(header, 1, 127)) % 256
  /\ At(header, 127) # 0

\* the 128 bytes of a header for n data bytes and the autostart argument a
Layout(h, n, a) ==
  LET field == IF a >= 0 /\ a < 32768 THEN a ELSE 32768
  IN  /\ Len(h) = 128
      /\ SubSeq(h, 1, 8) = <<80, 76, 85, 83, 51, 68, 79, 83>>
      /\ At(h, 8) = 26
      /\ At(h, 9) = 1
      /\ At(h, 10) = 0
      /\ At(h, 11) = (n + 128) % 256
      /\ At(h, 12) = ((n + 128) \div 256) % 256
      /\ At(h, 13) = ((n + 128) \div 65536) % 256
      /\ At(h, 14) = ((n + 128) \div 16777216) % 256
      /\ At(h, 15) = 0
      /\ At(h, 16) = n % 256
      /\ At(h, 17) = (n \div 256) % 256
      /\ At(h, 18) = field % 256
      /\ At(h, 19) = field \div 256
      /\ At(h, 20) = n % 256
      /\ At(h, 21) = (n \div 256) % 256
      /\ \A i \in 22..126 : At(h, i) = 0

\* C11: the header CreateHeader returns has the +3DOS layout for its two
\* arguments (the 16-bit fields hold the low 16 bits of dataLength), and the
\* file main writes is that header for the length of the data, then the data.
C11_HeaderLayout ==
  /\ written = HeaderWrites => Layout(header, basicLength, autoStartLine)
  /\ epc = "written" =>
       /\ basicLength = Len(output)
       /\ autoStartLine = AutoStartLine
       /\ Len(fileOut) = 128 + Len(output)
       /\ SubSeq(fileOut, 1, 128) = header
       /\ SubSeq(fileOut, 129, Len(fileOut)) = output

C11_Witness ==
  /\ epc = "written"
  /\ Len(output) = 11
  /\ AutoStartLine = 9999
  /\ Layout(SubSeq(fileOut, 1, 128), 11, 9999)
  /\ At(fileOut, 11) = 139
  /\ At(fileOut, 18) = 15
  /\ At(fileOut, 19) = 39
  /\ At(fileOut, 128 + 10) = 13


\* the autostart field of a header: bytes 18 and 19, low byte first
FieldOf(h) == h[19] + 256 * h[20]

\* C28: once CreateHeader has written the autostart field, and in the file
\* main writes, the field is the autostart value when the value is in
\* 0..32767 and 32768 for any other value, negative or large: never the
\* value reduced modulo 65536.
C28_AutoStartField ==
  /\ written = HeaderWrites =>
       /\ FieldOf(header) \in 0..32768
       /\ FieldOf(header)
            = (IF autoStartLine >= 0 /\ autoStartLine <= 32767
               THEN autoStartLine ELSE 32768)
  /\ epc = "written" =>
       FieldOf(fileOut)
         = (IF AutoStartLine >= 0 /\ AutoStartLine <= 32767
            THEN AutoStartLine ELSE 32768)

\* 65546 is 10 modulo 65536: the field is 32768
C28_Witness ==
  /\ epc = "written"
  /\ AutoStartLine = 65546
  /\ fileOut[19] = 0
  /\ fileOut[20] = 128

----------------------------------------------------------------------------
(* bas2txt (DecSpec): BasParser::Parse on a byte buffer, one record per     *)
(* pass of its while loop and one iteration of the loop of DecodeLineData   *)
(* per step.                                                                *)

\* the most bytes after the record header of the last record
MaxPayload == 3

\* bytes the last record is made of
PayloadBytes == {13, 14, 58, 65, 245}

\* a complete record: line 10, A
CompleteRecord == <<0, 10, 2, 0, 65, 13>>

\* what precedes the last record: nothing, a record, a header and a record
Prefixes ==
  {<<>>, CompleteRecord, CreateHeader(6, 20) \o CompleteRecord}

Bodies == UNION {[1..n -> PayloadBytes] : n \in 0..MaxPayload}

\* a last record of line 20 whose declared length is up to two more than the
\* bytes that follow its record header
FramingBuffers ==
  {p \o <<0, 20, len, 0>> \o b :
     p \in Prefixes, b \in Bodies, len \in 0..(MaxPayload + 2)}

\* the five bytes after a marker
FiveBytes ==
  {<<0, 0, 10, 0, 0>>, <<245, 245, 245, 245, 245>>, <<65, 66, 67, 68, 69>>,
   <<14, 14, 14, 14, 14>>, <<127, 127, 127, 127, 127>>, <<14, 245, 65, 127, 34>>}

\* one record with a marker: what precedes it, its five bytes, what follows
MarkerBuffers ==
  {LET body == lead \o <<14>> \o five \o rest \o <<13>>
   IN  <<0, 30, Len(body), 0>> \o body :
     lead \in {<<>>, <<65>>, <<245>>, <<49, 48>>},
     five \in FiveBytes,
     rest \in {<<>>, <<66>>, <<245, 66>>, <<14>>}}

\* one record of a token and the byte after it, and of a token alone
TokenBuffers ==
  {<<0, 40, 3, 0, t, x, 13>> : t \in {245, 135, 255}, x \in 0..255}
    \cup {<<0, 40, 2, 0, t, 13>> : t \in {245, 135, 255}}

\* the first eight bytes of a file: the two signatures, and near misses
FirstEight ==
  {<<80, 76, 85, 83, 51, 68, 79, 83>>,       \* |PLUS3DOS|
   <<90, 88, 80, 76, 85, 83, 51, 32>>,       \* |ZXPLUS3 |
   <<90, 88, 80, 76, 85, 83, 51, 68>>,       \* |ZXPLUS3D|
   <<80, 76, 85, 83, 51, 68, 79, 88>>,       \* |PLUS3DOX|
   <<112, 108, 117, 115, 51, 100, 111, 115>>, \* |plus3dos|
   <<0, 10, 2, 0, 65, 13, 0, 20>>}

\* values of the 16-bit field at offsets 18..19
AutoStartFields == {0, 10, 255, 256, 32767, 32768, 32769, 65535}

\* 128 bytes: base with its first eight bytes replaced by sig and n at 18..19
HeaderBlock(base, sig, n) ==
  [p \in 1..128 |->
     IF p <= 8 THEN sig[p]
     ELSE IF p = 19 THEN n % 256
     ELSE IF p = 20 THEN n \div 256
     ELSE base[p]]

\* such a block made from a header, whole or cut short, and the records after
HeaderBuffers ==
  LET base == CreateHeader(6, 0)
  IN  {SubSeq(HeaderBlock(base, sig, n), 1, keep) \o rest :
         sig \in FirstEight, n \in AutoStartFields, keep \in {8, 20, 127, 128},
         rest \in {<<>>, CompleteRecord, <<0, 20, 3, 0, 245, 49>>}}

\* one record with a token between quotes, and with a token after REM
ContextBuffers ==
  {<<0, 50, Len(body) + 1, 0>> \o body \o <<13>> :
     body \in {<<34, 245, 34>>, <<34, 65, 234, 34>>, <<234, 245>>,
               <<234, 32, 245, 34, 236>>}}

\* buffers shorter than a record header, and records that declare the
\* lengths 65535, 32768 and 256
EdgeBuffers ==
  {<<>>, <<0>>, <<0, 20>>, <<0, 20, 3>>, <<14>>, <<245, 245, 245>>}
    \cup {<<0, 20, lo, hi>> \o b :
            lo \in {0, 255}, hi \in {1, 128, 255}, b \in {<<>>, <<245>>, <<14, 65>>}}

Buffers ==
  FramingBuffers \cup MarkerBuffers \cup TokenBuffers \cup HeaderBuffers
    \cup ContextBuffers \cup EdgeBuffers

DecInit ==
  /\ data \in Buffers
  /\ offset = 0
  /\ sb = <<>>
  /\ lineNum = 0
  /\ lineLen = 0
  /\ decPos = 0
  /\ decEnd = 0
  /\ lineContent = <<>>
  /\ dlast = NoDStep
  /\ dpc = "header"
  /\ semi = FALSE
  /\ EncIdle /\ LineIdle /\ HdrIdle

\* 1. Detect and Process +3DOS Header
ParseHeader ==
  /\ dpc = "header"
  /\ sb' = ParseHeaderPart(data).lines
  /\ offset' = ParseHeaderPart(data).off
  /\ dpc' = "loop"
  /\ UNCHANGED <<semi, data, lineNum, lineLen, decPos, decEnd, lineContent,
                 dlast, encVars, lineVars, hdrVars>>

\* while (offset < data.size()) fails
StopAtEnd ==
  /\ dpc = "loop"
  /\ offset >= Len(data)
  /\ dpc' = "done"
  /\ UNCHANGED <<semi, data, offset, sb, lineNum, lineLen, decPos, decEnd,
                 lineContent, dlast, encVars, lineVars, hdrVars>>

\* if (offset + 4 > data.size()) break
StopShortHeader ==
  /\ dpc = "loop"
  /\ offset < Len(data)
  /\ offset + 4 > Len(data)
  /\ dpc' = "done"
  /\ UNCHANGED <<semi, data, offset, sb, lineNum, lineLen, decPos, decEnd,
                 lineContent, dlast, encVars, lineVars, hdrVars>>

\* the record header is read; if (offset + lineLen - 1 > data.size()) break
StopCutRecord ==
  /\ dpc = "loop"
  /\ offset < Len(data)
  /\ offset + 4 <= Len(data)
  /\ RecordCut(data, offset + 4, RecordHeader(data, offset).len)
  /\ lineNum' = RecordHeader(data, offset).num
  /\ lineLen' = RecordHeader(data, offset).len
  /\ offset' = offset + 4
  /\ dpc' = "done"
  /\ UNCHANGED <<semi, data, sb, decPos, decEnd, lineContent, dlast,
                 encVars, lineVars, hdrVars>>

\* the record header is read and DecodeLineData(data, offset, lineLen - 1)
\* is entered
ReadRecord ==
  /\ dpc = "loop"
  /\ offset < Len(data)
  /\ offset + 4 <= Len(data)
  /\ ~RecordCut(data, offset + 4, RecordHeader(data, offset).len)
  /\ lineNum' = RecordHeader(data, offset).num
  /\ lineLen' = RecordHeader(data, offset).len
  /\ offset' = offset + 4
  /\ decPos' = offset + 4
  /\ decEnd' = offset + 4 + RecordHeader(data, offset).len - 1
  /\ lineContent' = <<>>
  /\ dlast' = NoDStep
  /\ dpc' = "decode"
  /\ UNCHANGED <<semi, data, sb, encVars, lineVars, hdrVars>>

\* one iteration of for (int i = start; i < end; i++)
TakeDStep ==
  LET s == DecodeStep(data, decPos, decEnd)
  IN  /\ lineContent' = lineContent \o s.out
      /\ decPos' = s.next
      /\ dlast' = [kind |-> s.kind, out |-> s.out, next |-> s.next,
                   at |-> decPos]
      /\ UNCHANGED <<semi, data, offset, sb, lineNum, lineLen, decEnd, dpc,
                     encVars, lineVars, hdrVars>>

Decoding ==
  /\ dpc = "decode"
  /\ decPos < decEnd

\* Case 1: Hidden Number Marker (0x0E)
DecodeMarker ==
  /\ Decoding
  /\ At(data, decPos) = 14
  /\ TakeDStep

\* Case 2: Token (Keywords)
DecodeToken ==
  /\ Decoding
  /\ At(data, decPos) # 14
  /\ IsToken(At(data, decPos))
  /\ TakeDStep

\* Case 3 & 4: Printable ASCII and Copyright Symbol
DecodeChar ==
  /\ Decoding
  /\ At(data, decPos) # 14
  /\ ~IsToken(At(data, decPos))
  /\ TakeDStep

\* sb << lineNum << " " << lineContent << "\n"; offset += lineLen
EndLine ==
  /\ dpc = "decode"
  /\ decPos >= decEnd
  /\ sb' = Append(sb, TextLine(lineNum, lineContent))
  /\ offset' = offset + lineLen
  /\ dpc' = "loop"
  /\ UNCHANGED <<semi, data, lineNum, lineLen, decPos, decEnd, lineContent,
                 dlast, encVars, lineVars, hdrVars>>

DecNext ==
  \/ ParseHeader
  \/ StopAtEnd
  \/ StopShortHeader
  \/ StopCutRecord
  \/ ReadRecord
  \/ DecodeMarker
  \/ DecodeToken
  \/ DecodeChar
  \/ EndLine

DecSpec == DecInit /\ [][DecNext]_vars

\* Parse is one sequential call: it keeps running until it returns
DecRunSpec == DecSpec /\ WF_vars(DecNext)
----------------------------------------------------------------------------
(* Properties of the decoder (DecSpec).                                     *)

\* the lines of the records from off on, up to the first one that is not
\* complete: a record is complete when its declared length is at most the
\* number of bytes that follow its 4-byte record header
RECURSIVE CompleteLines(_, _)
CompleteLines(buf, off) ==
  IF off + 4 > Len(buf) THEN <<>>
  ELSE LET rh    == RecordHeader(buf, off)
           start == off + 4
       IN  IF rh.len > Len(buf) - start THEN <<>>
           ELSE <<TextLine(rh.num, DecodeLineData(buf, start, rh.len - 1))>>
                  \o CompleteLines(buf, start + rh.len)

\* C1: Parse returns the lines of the complete records that precede the first
\* record whose declared length exceeds the bytes remaining after its record
\* header, and no line for that record.
C1_TruncatedStops ==
  dpc = "done" =>
    sb = ParseHeaderPart(data).lines
           \o CompleteLines(data, ParseHeaderPart(data).off)

\* C9: an iteration of the decoding loop that stands on a 0x0E byte appends
\* nothing to the text and moves six bytes on, whatever the five bytes after
\* the marker are.
C9_MarkerSkipped ==
  [][(dpc = "decode" /\ decPos < decEnd /\ At(data, decPos) = 14)
       => (lineContent' = lineContent /\ decPos' = decPos + 6 /\ sb' = sb)]_vars

C9_Witness ==
  /\ dpc = "decode"
  /\ dlast.kind = "marker"
  /\ dlast.next < decEnd
  /\ Substr(data, dlast.at + 1, 5) = <<14, 245, 65, 127, 34>>
  /\ lineContent = <<65>>

IsLetterOrDigit(b) == b \in (48..57) \cup (65..90) \cup (97..122)

\* C10: an iteration that decodes a token appends the keyword and then one
\* space exactly when a next byte exists in the payload and it is below 128,
\* not 0x0E, and a letter, a digit, '"' or '.'; otherwise the keyword alone.
C10_SmartSpacing ==
  dlast.kind = "token" =>
    LET word  == ReverseTokenMap[At(data, dlast.at)]
        space == /\ dlast.at + 1 < decEnd
                 /\ At(data, dlast.at + 1) < 128
                 /\ At(data, dlast.at + 1) # 14
                 /\ \/ IsLetterOrDigit(At(data, dlast.at + 1))
                    \/ At(data, dlast.at + 1) \in {34, 46}
    IN  dlast.out = IF space THEN word \o <<32>> ELSE word

C10_Witness ==
  /\ dlast.kind = "token"
  /\ dlast.at + 1 < decEnd
  /\ At(data, dlast.at) = 245
  /\ At(data, dlast.at + 1) = 34
  /\ dlast.out = <<80, 82, 73, 78, 84, 32>>

\* a buffer of at least 128 bytes that starts with PLUS3DOS or ZXPLUS3
StartsWithHeader ==
  /\ Len(data) >= 128
  /\ \/ SubSeq(data, 1, 8) = <<80, 76, 85, 83, 51, 68, 79, 83>>
     \/ SubSeq(data, 1, 7) = <<90, 88, 80, 76, 85, 83, 51>>

\* the little-endian 16-bit value at offsets 18..19
FieldValue == At(data, 18) + 256 * At(data, 19)

\* the #autostart line of a header whose field is not 32768
ExpectedFirstLines ==
  IF StartsWithHeader /\ FieldValue # 32768
  THEN << <<35, 97, 117, 116, 111, 115, 116, 97, 114, 116, 32>>
            \o IntToStr(FieldValue) >>
  ELSE <<>>

ExpectedStart == IF StartsWithHeader THEN 128 ELSE 0

\* C12: the first step of Parse leaves the line #autostart N and offset 128
\* exactly for a buffer of 128 bytes or more that starts with PLUS3DOS or
\* ZXPLUS3 (the line only when N, the value at offsets 18..19, is not 32768),
\* and no line and offset 0 for any other buffer; the text returned is that
\* line, if any, and the lines of the records from that offset on.
C12_HeaderDetection ==
  /\ [](dpc = "done" =>
          sb = ExpectedFirstLines \o ParseFrom(data, ExpectedStart))
  /\ [][dpc = "header" =>
          (sb' = ExpectedFirstLines /\ offset' = ExpectedStart)]_vars

C12_Witness ==
  /\ dpc = "done"
  /\ StartsWithHeader
  /\ SubSeq(data, 1, 7) = <<90, 88, 80, 76, 85, 83, 51>>
  /\ FieldValue = 10
  /\ sb = << <<35, 97, 117, 116, 111, 115, 116, 97, 114, 116, 32, 49, 48>>,
             <<49, 48, 32, 65>> >>

\* the declared length of the record whose record header is at off
DeclaredLength(off) == data[off + 3] + 256 * data[off + 4]

\* a complete record at off: its record header and its declared number of
\* payload bytes lie inside the buffer
CompleteAt(off) ==
  /\ off + 4 <= Len(data)
  /\ off + 4 + DeclaredLength(off) <= Len(data)

\* the payload bytes of the record at off without the last one
DecodedBytes(off) == SubSeq(data, off + 5, off + 4 + DeclaredLength(off) - 1)

\* C22: the record loop standing on a complete record enters the decoding of
\* that record, and the decoding ends with one line appended, made of the
\* decimal of the first two bytes read high byte first, a space and the
\* decoding of the payload bytes before the last one, and with the cursor
\* moved from the start of the record by 4 plus the declared length.
C22_RecordLine ==
  /\ [][(dpc = "loop" /\ offset < Len(data) /\ CompleteAt(offset))
          => (dpc' = "decode" /\ sb' = sb /\ offset' = offset + 4)]_vars
  /\ [][(dpc = "decode" /\ dpc' # "decode" /\ CompleteAt(offset - 4)) =>
         LET start  == offset - 4
             length == DeclaredLength(start)
             bytes  == DecodedBytes(start)
         IN  /\ dpc' = "loop"
             /\ sb' = Append(sb, IntToStr(256 * data[start + 1] + data[start + 2])
                                   \o <<32>>
                                   \o DecodeLineData(bytes, 0, Len(bytes)))
             /\ offset' = start + 4 + length
             /\ lineContent = DecodeLineData(bytes, 0, Len(bytes))]_vars

\* the record 00 28 03 00 F5 41 0D alone: one line, the cursor at the end
C22_Witness ==
  /\ dpc = "done"
  /\ data = <<0, 40, 3, 0, 245, 65, 13>>
  /\ offset = 7
  /\ sb = << <<52, 48, 32, 80, 82, 73, 78, 84, 32, 65>> >>

\* what a byte that is neither a marker nor a token becomes
PlainOutput(b) ==
  IF b \in 32..126 THEN <<b>>
  ELSE IF b = 127 THEN <<194, 169>>
  ELSE <<>>

\* C23: an iteration of the decoding loop on a byte other than 0x0E appends,
\* for a byte in 0x87..0xFF, its keyword (and at most the one space of the
\* spacing rule); for a byte in 32..126 the byte; for 0x7F the two bytes of
\* the copyright glyph; for any other byte nothing. Quotes and REM before the
\* byte change nothing: "<PRINT>" gives "PRINT " between the quotes and
\* <REM><PRINT> gives REMPRINT.
C23_ByteMapping ==
  /\ dlast.kind \in {"token", "char"} =>
       LET b == At(data, dlast.at)
       IN  /\ b # 14
           /\ dlast.next = dlast.at + 1
           /\ IF b \in 135..255
              THEN /\ dlast.kind = "token"
                   /\ dlast.out \in {ReverseTokenMap[b], ReverseTokenMap[b] \o <<32>>}
              ELSE /\ dlast.kind = "char"
                   /\ dlast.out = PlainOutput(b)
  /\ (dpc = "done" /\ data = <<0, 50, 4, 0, 34, 245, 34, 13>>) =>
       sb = << <<53, 48, 32, 34, 80, 82, 73, 78, 84, 32, 34>> >>
  /\ (dpc = "done" /\ data = <<0, 50, 3, 0, 234, 245, 13>>) =>
       sb = << <<53, 48, 32, 82, 69, 77, 80, 82, 73, 78, 84>> >>

\* 0x7F after a token: the glyph
C23_Witness ==
  /\ dpc = "decode"
  /\ dlast.kind = "char"
  /\ At(data, dlast.at) = 127
  /\ dlast.out = <<194, 169>>
  /\ lineContent = <<80, 82, 73, 78, 84, 194, 169>>

\* the indices of the buffer
Indices == 0..(Len(data) - 1)

\* C24: whatever Parse and DecodeLineData are about to read lies inside the
\* buffer: the signature and the autostart field, the four bytes of a record
\* header, the byte an iteration of the decoding loop stands on and the byte
\* after a token that the spacing rule looks at.
C24_ReadsInside ==
  /\ dpc = "header" => HeaderReads(data) \subseteq Indices
  /\ (dpc = "loop" /\ offset < Len(data) /\ offset + 4 <= Len(data)) =>
       RecordReads(offset) \subseteq Indices
  /\ (dpc = "decode" /\ decPos < decEnd) =>
       /\ decPos \in Indices
       /\ StepReads(data, decPos, decEnd) \subseteq Indices

\* a marker in the last payload bytes: the index jumps past the buffer and
\* the loop ends without a further read
C24_Witness ==
  /\ dpc = "decode"
  /\ dlast.kind = "marker"
  /\ dlast.next > Len(data)
  /\ decPos = dlast.next
  /\ decPos >= decEnd

\* C25: Parse returns. A pass of the record loop that does not stop enters
\* the decoding with the cursor 4 further and ends it with the cursor at
\* least 4 past the start of the record, a declared length of 0 included;
\* an iteration of the decoding loop moves its index forward.
C25_Terminates ==
  /\ [][(dpc = "loop" /\ dpc' = "decode") => offset' = offset + 4]_vars
  /\ [][(dpc = "decode" /\ dpc' = "loop") =>
          (offset' >= (offset - 4) + 4 /\ offset' = offset + lineLen)]_vars
  /\ [][(dpc = "decode" /\ dpc' = "decode") => decPos' > decPos]_vars
  /\ [][dpc = "loop" => dpc' \in {"decode", "done"}]_vars
  /\ <>(dpc = "done")

\* a record that declares the length 0: one line, the cursor 4 further
C25_Witness ==
  /\ dpc = "done"
  /\ data = <<0, 20, 0, 0>>
  /\ lineLen = 0
  /\ offset = 4
  /\ sb = << <<50, 48, 32>> >>

----------------------------------------------------------------------------
(* txt2bas on a source, then bas2txt on the file it wrote (RoundSpec).      *)

\* bas2txt main: the bytes of the file txt2bas wrote are read and parsed
LoadFile ==
  /\ epc = "written"
  /\ dpc = "idle"
  /\ data' = fileOut
  /\ dpc' = "header"
  /\ UNCHANGED <<semi, offset, sb, lineNum, lineLen, decPos, decEnd,
                 lineContent, dlast, encVars, lineVars, hdrVars>>

\* the two breaks of the record loop are left out: C26_FramingRoundTrip
\* states that neither is enabled in any state reached
RoundNext ==
  \/ \E raw \in SourceLines : ReadLine(raw)
  \/ ReturnOutput
  \/ WriteFile
  \/ LoadFile
  \/ ParseHeader
  \/ StopAtEnd
  \/ ReadRecord
  \/ DecodeMarker
  \/ DecodeToken
  \/ DecodeChar
  \/ EndLine

RoundSpec == Init /\ [][RoundNext]_vars

\* the value of the last #autostart line of the source whose operand the
\* encoder read, 32768 when there is none
RECURSIVE LastDirective(_)
LastDirective(lines) ==
  IF lines = <<>> THEN 32768
  ELSE LET line == Trim(lines[Len(lines)])
       IN  IF IsAutostart(line) /\ ExtractOperand(line).ok
           THEN ExtractOperand(line).val
           ELSE LastDirective(SubSeq(lines, 1, Len(lines) - 1))

\* line begins with the decimal of n and a space
StartsWithNumber(line, n) ==
  /\ Len(line) > Len(IntToStr(n))
  /\ SubSeq(line, 1, Len(IntToStr(n)) + 1) = IntToStr(n) \o <<32>>

=============================================================================
